---- MODULE Spec2Model ----
(***************************************************************************)
(* Authentication and authorization core of acaimar-api:                   *)
(*   shared/auth.py            token codec and the require_auth gate       *)
(*   auth_verify/__init__.py   GET /auth/verify                            *)
(*   shared/services/users.py  credential hasher and user service          *)
(*   auth_login, auth_register, users: the endpoints over the user service *)
(*                                                                         *)
(* Time is counted in clock ticks, TicksPerSecond ticks to a second:       *)
(* datetime.utcnow() has sub-second resolution, while the exp and iat      *)
(* claims inside a token are whole seconds (jwt.encode converts a datetime *)
(* with timegm(utctimetuple()), which drops the fraction).                 *)
(*                                                                         *)
(* An Authorization header value is a sequence of symbols.  A symbol is a *)
(* character Ch(c) or one encoded JWT (a record of its claims, of the key  *)
(* that signed it and of the algorithm); the inside of a JWT is not        *)
(* spelled out character by character.  An email or a password is a       *)
(* sequence of characters.  Optional values are sequences of length at     *)
(* most one: None is << >>.                                                *)
(***************************************************************************)
EXTENDS Integers, Sequences, FiniteSets, TLC

----------------------------------------------------------------------------
(* Bounds of the model *)

TicksPerSecond == 2
SecondsPerHour == 1
ClockSlack == 1
MaxIssueTick == 1
MaxGenDelay == 1
MaxIssued == 1
MaxRequests == 2

(* Program constants *)

JWT_SECRET == "configured-secret"
JWT_ALGORITHM == "HS256"
JWT_EXPIRATION_HOURS == 24

\* bcrypt looks at no more than the first 72 bytes of a password
BCRYPT_MAX_BYTES == 72

\* validate_password(password, min_length = 8)
MIN_PASSWORD_LENGTH == 8

OtherSecret == "other-secret"

TTL == JWT_EXPIRATION_HOURS * SecondsPerHour * TicksPerSecond
MaxClock == MaxIssueTick + MaxGenDelay + TTL + ClockSlack

\* the instants at which the model looks at the system: around issuance and
\* around expiry (the hours in between are passed over in one step)
Instants == (0 .. (MaxIssueTick + MaxGenDelay)) \cup ((TTL - TicksPerSecond) .. MaxClock)

----------------------------------------------------------------------------
(* Values *)

None == << >>
Some(x) == << x >>

Ch(c) == [ch |-> c]
Bearer == << Ch("B"), Ch("e"), Ch("a"), Ch("r"), Ch("e"), Ch("r"), Ch(" ") >>
LowerBearer == << Ch("b"), Ch("e"), Ch("a"), Ch("r"), Ch("e"), Ch("r"), Ch(" ") >>
BearerNoSpace == << Ch("B"), Ch("e"), Ch("a"), Ch("r"), Ch("e"), Ch("r") >>
Garbage == << Ch("x") >>

\* an _id is a bson ObjectId in the store and a str once converted
ObjectId(x) == [oid |-> x]
Str(x) == [str |-> x]

\* the str "" where a str and a bcrypt hash are both possible values
EmptyStr == [raw |-> ""]
MalformedHash == [raw |-> "not-a-bcrypt-hash"]

EmailA == << "a", "@", "x" >>
EmailB == << "b", "@", "x" >>
EmailC == << "c", "@", "x" >>

\* passwords: two of the minimum length, one too short for validate_password,
\* and two that differ only after their first BCRYPT_MAX_BYTES characters
Password1 == << "p", "a", "s", "s", "w", "o", "r", "1" >>
Password2 == << "p", "a", "s", "s", "w", "o", "r", "2" >>
WrongPassword == << "w", "r", "o", "n", "g", "p", "w", "d" >>
ShortPassword == << "p", "w" >>
LongPasswordB == [k \in 1 .. BCRYPT_MAX_BYTES |-> "a"] \o << "b" >>
LongPasswordC == [k \in 1 .. BCRYPT_MAX_BYTES |-> "a"] \o << "c" >>

\* what login and register hand to generate_token: _id, email and role of a user
Identities ==
    { [user_id |-> Str("id1"), email |-> EmailA, role |-> "admin"],
      [user_id |-> Str("id2"), email |-> EmailB, role |-> "user"] }

VARIABLES
    now,            \* the clock, in ticks
    gen,            \* generate_token in progress: None or Some(partial payload)
    issued,         \* tokens returned by generate_token, with what was put in
    import_errors,  \* shared.auth could not be imported when the process loaded
    pc,             \* position of the request in flight
    route,          \* "guarded" (behind require_auth) or "verify" (/auth/verify)
    req,            \* the request: Authorization header and user context
    require_role,   \* the decorator's argument: None or Some(role)
    token,          \* wrapper local
    payload,        \* wrapper local
    vt,             \* the clock as jwt.decode read it for this request
    log,            \* last warning/error written by the code for this request
    resp,           \* the response returned: None or Some(response)
    escaped,        \* an exception left the wrapper
    calls,          \* invocations of the wrapped handler for this request
    seen,           \* req.user as the wrapped handler saw it when called
    hresp,          \* what the wrapped handler returned
    users,          \* the users collection, in insertion order
    call,           \* the service call just made: None or Some(arguments)
    ret,            \* what that call returned
    reg,            \* the register / create-user requests in flight, per worker
    started,        \* how many such requests have been started
    bcrypt_strict,  \* the installed bcrypt rejects passwords over 72 bytes
    db              \* shared/db_connection.py: the client cache and its callers

gateVars == << pc, route, req, require_role, token, payload, vt, log, resp,
               escaped, calls, seen, hresp >>
tokenVars == << gen, issued >>
storeVars == << users, call, ret, reg, started, bcrypt_strict, db >>
vars == << now, gen, issued, import_errors, pc, route, req, require_role, token,
           payload, vt, log, resp, escaped, calls, seen, hresp, users, call, ret,
           reg, started, bcrypt_strict, db >>
----------------------------------------------------------------------------
(* Token codec: shared/auth.py, with jwt.encode / jwt.decode as it uses them *)

IsJWT(s) == Len(s) = 1 /\ "key" \in DOMAIN s[1]

\* jwt.encode(payload, key, algorithm): exp and iat datetimes become whole
\* seconds; the result is the claims signed under key
jwt_encode(p, key, algorithm) ==
    << [claims |-> [p EXCEPT !.exp = p.exp \div TicksPerSecond,
                             !.iat = p.iat \div TicksPerSecond],
        key |-> key, alg |-> algorithm] >>

\* jwt.decode that takes a token for expired one second before its exp
jwt_decode_EarlyExpiry(s, key, algorithms, t) ==
    IF ~IsJWT(s) THEN [exc |-> "DecodeError", val |-> None]
    ELSE IF s[1].alg \notin algorithms
         THEN [exc |-> "InvalidAlgorithmError", val |-> None]
    ELSE IF s[1].key # key THEN [exc |-> "InvalidSignatureError", val |-> None]
    ELSE IF (s[1].claims.exp - 1) * TicksPerSecond <= t
         THEN [exc |-> "ExpiredSignatureError", val |-> None]
         ELSE [exc |-> "", val |-> Some(s[1].claims)]

\* jwt.decode with the expiry test off by one: a token still passes at now = exp
jwt_decode_LateExpiry(s, key, algorithms, t) ==
    IF ~IsJWT(s) THEN [exc |-> "DecodeError", val |-> None]
    ELSE IF s[1].alg \notin algorithms
         THEN [exc |-> "InvalidAlgorithmError", val |-> None]
    ELSE IF s[1].key # key THEN [exc |-> "InvalidSignatureError", val |-> None]
    ELSE IF s[1].claims.exp * TicksPerSecond < t
         THEN [exc |-> "ExpiredSignatureError", val |-> None]
         ELSE [exc |-> "", val |-> Some(s[1].claims)]

\* jwt.decode(token, key, algorithms) at clock t: structure, then algorithm,
\* then signature, then exp (expired when exp <= now); the exception raised,
\* or "" and the claims
jwt_decode(s, key, algorithms, t) ==
    IF ~IsJWT(s) THEN [exc |-> "DecodeError", val |-> None]
    ELSE IF s[1].alg \notin algorithms
         THEN [exc |-> "InvalidAlgorithmError", val |-> None]
    ELSE IF s[1].key # key THEN [exc |-> "InvalidSignatureError", val |-> None]
    ELSE IF s[1].claims.exp * TicksPerSecond <= t
         THEN [exc |-> "ExpiredSignatureError", val |-> None]
         ELSE [exc |-> "", val |-> Some(s[1].claims)]

\* the exception classes the second except clause of verify_token catches
InvalidTokenError ==
    { "DecodeError", "InvalidAlgorithmError", "InvalidSignatureError",
      "ExpiredSignatureError" }

\* verify_token without its first except clause and with the second one
\* narrowed: an expired token raises out of verify_token
verify_token_ExpiryRaises(s, t) ==
    LET r == jwt_decode(s, JWT_SECRET, { JWT_ALGORITHM }, t) IN
    IF r.exc = "" THEN [exc |-> "", val |-> r.val, log |-> ""]
    ELSE IF r.exc \in InvalidTokenError \ { "ExpiredSignatureError" }
         THEN [exc |-> "", val |-> None, log |-> "Invalid token"]
         ELSE [exc |-> r.exc, val |-> None, log |-> ""]

\* lines 55-63: the value returned, the warning logged, and the exception that
\* leaves verify_token ("" when jwt.decode raised none or it was caught here)
verify_token(s, t) ==
    LET r == jwt_decode(s, JWT_SECRET, { JWT_ALGORITHM }, t) IN
    IF r.exc = "" THEN [exc |-> "", val |-> r.val, log |-> ""]
    ELSE IF r.exc = "ExpiredSignatureError"
         THEN [exc |-> "", val |-> None, log |-> "Token has expired"]
    ELSE IF r.exc \in InvalidTokenError
         THEN [exc |-> "", val |-> None, log |-> "Invalid token"]
         ELSE [exc |-> r.exc, val |-> None, log |-> ""]

StartsWith(s, prefix) ==
    /\ Len(s) >= Len(prefix)
    /\ SubSeq(s, 1, Len(prefix)) = prefix

\* get_token_from_request that goes on stripping while the prefix is there
get_token_from_request_StripAll(r) ==
    LET auth_header == r.header
        once == SubSeq(auth_header, 8, Len(auth_header))
    IN
    IF auth_header = << >> THEN None
    ELSE IF StartsWith(auth_header, Bearer)
         THEN IF StartsWith(once, Bearer)
              THEN Some(SubSeq(once, 8, Len(once)))
              ELSE Some(once)
         ELSE Some(auth_header)

\* get_token_from_request that finds no token behind the bare prefix
get_token_from_request_NoneWhenBare(r) ==
    LET auth_header == r.header IN
    IF auth_header = << >> \/ auth_header = Bearer THEN None
    ELSE IF StartsWith(auth_header, Bearer)
         THEN Some(SubSeq(auth_header, 8, Len(auth_header)))
         ELSE Some(auth_header)

get_token_from_request(r) ==
    LET auth_header == r.header IN
    IF auth_header = << >> THEN None
    ELSE IF StartsWith(auth_header, Bearer)
         THEN Some(SubSeq(auth_header, 8, Len(auth_header)))
         ELSE Some(auth_header)

\* Python truth of an Optional[str] / Optional[dict]: None and "" are false
Falsy(x) == x = None \/ x[1] = << >>

----------------------------------------------------------------------------
(* Responses: shared/utils/responses.py *)

\* a response is its status code and its JSON body, a record
json_response(data, status_code) == [status |-> status_code, body |-> data]

error_response(error, status_code, details) ==
    IF details = None \/ details = Some("")
    THEN json_response([error |-> error], status_code)
    ELSE json_response([error |-> error, details |-> details[1]], status_code)

unauthorized_response(message) == error_response(message, 401, None)
forbidden_response(message) == error_response(message, 403, None)
success_response(data, status_code) == json_response(data, status_code)

----------------------------------------------------------------------------
(* Requests the environment can send *)

\* a token real or not: the claims of an issued token signed by somebody else,
\* or left unsigned
Forge(s) == << [s[1] EXCEPT !.key = OtherSecret] >>
Unsigned(s) == << [s[1] EXCEPT !.key = "", !.alg = "none"] >>

TokenTexts ==
    UNION { { i.token, Forge(i.token), Unsigned(i.token) } : i \in issued }

\* Authorization header values: absent or empty, the bare prefix, text that is
\* no token behind each spelling of the prefix, and every token text bare and
\* behind "Bearer "
Headers ==
    { << >>, Bearer, Garbage, Bearer \o Garbage, LowerBearer \o Garbage,
      BearerNoSpace \o Garbage, Bearer \o Bearer \o Garbage }
    \cup UNION { { t, Bearer \o t } : t \in TokenTexts }

RequireRoles == { None, Some("admin") }

\* what a wrapped handler may answer
HandlerResponses == { success_response([data |-> "handled"], 200),
                      error_response(<< "Meta not found" >>, 404, None) }

----------------------------------------------------------------------------
(* Credential hasher and user service: shared/services/users.py *)

\* str.lower() and str.strip() on an email, a sequence of characters
UpperCase == << "A", "B", "C", "I", "N", "O", "X" >>
LowerCase == << "a", "b", "c", "i", "n", "o", "x" >>

LowerChar(c) ==
    IF \E k \in DOMAIN UpperCase : UpperCase[k] = c
    THEN LowerCase[CHOOSE k \in DOMAIN UpperCase : UpperCase[k] = c]
    ELSE c

Lower(s) == [k \in 1 .. Len(s) |-> LowerChar(s[k])]

IsSpace(c) == c \in { " ", "\t" }

RECURSIVE LStrip(_)
LStrip(s) == IF s # << >> /\ IsSpace(s[1]) THEN LStrip(Tail(s)) ELSE s

RECURSIVE RStrip(_)
RStrip(s) ==
    IF s # << >> /\ IsSpace(s[Len(s)]) THEN RStrip(SubSeq(s, 1, Len(s) - 1)) ELSE s

Strip(s) == RStrip(LStrip(s))

\* the bcrypt hash string of a password under a salt: it carries the salt, and
\* only the first BCRYPT_MAX_BYTES bytes of the password go into the digest
Truncated(password) ==
    IF Len(password) > BCRYPT_MAX_BYTES
    THEN SubSeq(password, 1, BCRYPT_MAX_BYTES)
    ELSE password

BcryptHash(password, salt) ==
    [salt |-> salt, digest |-> << Truncated(password), salt >>]

\* bcrypt.hashpw(password, salt).  The bcrypt release is not pinned: up to 4.x
\* a password over 72 bytes is silently truncated, from 5.0 it raises ValueError
bcrypt_hashpw(password, salt) ==
    IF bcrypt_strict /\ Len(password) > BCRYPT_MAX_BYTES
    THEN [exc |-> "ValueError", val |-> EmptyStr]
    ELSE [exc |-> "", val |-> BcryptHash(password, salt)]

\* bcrypt.checkpw(password, hashed): hashes again with the salt inside hashed
\* and compares; a string that is no bcrypt hash raises ValueError
bcrypt_checkpw(password, hashed) ==
    IF "salt" \notin DOMAIN hashed
    THEN [exc |-> "ValueError", val |-> FALSE]
    ELSE LET again == bcrypt_hashpw(password, hashed.salt) IN
         IF again.exc # "" THEN [exc |-> again.exc, val |-> FALSE]
         ELSE [exc |-> "", val |-> again.val = hashed]

\* line 21, with the salt bcrypt.gensalt() drew: the exception raised, or ""
\* and the hash string
hash_password(password, salt) == bcrypt_hashpw(password, salt)

\* verify_password without its try/except
verify_password_Unguarded(password, password_hash) ==
    bcrypt_checkpw(password, password_hash)

\* lines 35-38
verify_password(password, password_hash) ==
    LET r == bcrypt_checkpw(password, password_hash) IN
    IF r.exc # "" THEN [exc |-> "", val |-> FALSE] ELSE r

\* dict.get(key, default)
Get(d, key, default) == IF key \in DOMAIN d THEN d[key] ELSE default

\* collection.find_one({"email": email}): the first document that matches
find_one(coll, email) ==
    LET hits == { k \in 1 .. Len(coll) : coll[k].email = email } IN
    IF hits = { } THEN None
    ELSE Some(coll[CHOOSE k \in hits : \A j \in hits : k <= j])

\* find_user_by_email that looks the email up as the caller wrote it
find_user_by_email_AsWritten(coll, email) == find_one(coll, email)

\* find_user_by_email that filters on the wrong field
find_user_by_email_WrongField(coll, email) ==
    LET hits == { k \in 1 .. Len(coll) : coll[k].name = Strip(Lower(email)) } IN
    IF hits = { } THEN None
    ELSE Some(coll[CHOOSE k \in hits : \A j \in hits : k <= j])

find_user_by_email(coll, email) == find_one(coll, Strip(Lower(email)))

user_exists(coll, email) == find_user_by_email(coll, email) # None

\* the value of DB_PROVIDER, db_connection.py line 23
Providers == { "mongodb", "cosmosdb" }

\* the position of the first document that matches, 0 when none does
FirstMatch(coll, email) ==
    LET hits == { k \in 1 .. Len(coll) : coll[k].email = email } IN
    IF hits = { } THEN 0 ELSE CHOOSE k \in hits : \A j \in hits : k <= j

\* update_one that replaces the matched document by the fields it was given
update_one_ReplacesDocument(coll, email, role, provider) ==
    LET k == FirstMatch(coll, email) IN
    IF k = 0 THEN [coll |-> coll, modified_count |-> 0, written |-> 0]
    ELSE [coll |-> [coll EXCEPT ![k] = [_id |-> coll[k]._id, email |-> email,
                                        role |-> role]],
          modified_count |-> 1, written |-> k]

\* collection.update_one({"email": email}, {"$set": {"role": role}}): pymongo
\* writes the first match when the value differs and counts that write;
\* CosmosCollectionWrapper.update_one (db_connection.py lines 190-216) finds
\* the first match, sets the field and replaces the item, and counts 1
update_one(coll, email, role, provider) ==
    LET k == FirstMatch(coll, email)
        writes == k # 0 /\ (provider = "cosmosdb" \/ coll[k].role # role)
    IN
    IF ~writes THEN [coll |-> coll, modified_count |-> 0, written |-> 0]
    ELSE [coll |-> [coll EXCEPT ![k] =
                       [f \in DOMAIN coll[k] \cup { "role" } |->
                           IF f = "role" THEN role ELSE coll[k][f]]],
          modified_count |-> 1, written |-> k]

\* update_user_role that looks the email up as the caller wrote it
update_user_role_AsWritten(coll, email, new_role, provider) ==
    LET result == update_one(coll, email, new_role, provider) IN
    [coll |-> result.coll, val |-> result.modified_count > 0,
     written |-> result.written]

\* update_user_role, lines 133-149
update_user_role(coll, email, new_role, provider) ==
    LET result == update_one(coll, Strip(Lower(email)), new_role, provider) IN
    [coll |-> result.coll, val |-> result.modified_count > 0,
     written |-> result.written]

(* shared/utils/helpers.py *)

convert_objectid_to_str(doc) ==
    IF "_id" \in DOMAIN doc /\ "oid" \in DOMAIN doc._id
    THEN [doc EXCEPT !._id = Str(doc._id.oid)]
    ELSE doc

exclude_fields(doc, fields) == [k \in DOMAIN doc \ fields |-> doc[k]]

\* sanitize_user_response that converts the _id and keeps every field
sanitize_user_response_KeepsHash(user) == convert_objectid_to_str(user)

sanitize_user_response(user) ==
    exclude_fields(convert_objectid_to_str(user), { "password_hash" })

\* authenticate_user with the active test left out
authenticate_user_NoActiveTest(coll, email, password) ==
    LET user == find_user_by_email(coll, email) IN
    IF user = None THEN [exc |-> "", val |-> None, line |-> 166]
    ELSE LET password_hash == Get(user[1], "password_hash", EmptyStr)
             ok == verify_password(password, password_hash)
         IN
         IF password_hash = EmptyStr THEN [exc |-> "", val |-> None, line |-> 175]
         ELSE IF ok.exc # "" THEN [exc |-> ok.exc, val |-> None, line |-> 174]
         ELSE IF ~ok.val THEN [exc |-> "", val |-> None, line |-> 175]
         ELSE [exc |-> "", val |-> Some(sanitize_user_response(user[1])),
               line |-> 178]

\* lines 163-178: the value returned, the line of the return statement that
\* returned it, and the exception that leaves authenticate_user ("" for none)
authenticate_user(coll, email, password) ==
    LET user == find_user_by_email(coll, email) IN
    IF user = None THEN [exc |-> "", val |-> None, line |-> 166]
    ELSE IF ~Get(user[1], "active", TRUE)
         THEN [exc |-> "", val |-> None, line |-> 170]
    ELSE LET password_hash == Get(user[1], "password_hash", EmptyStr)
             ok == verify_password(password, password_hash)
         IN
         IF password_hash = EmptyStr THEN [exc |-> "", val |-> None, line |-> 175]
         ELSE IF ok.exc # "" THEN [exc |-> ok.exc, val |-> None, line |-> 174]
         ELSE IF ~ok.val THEN [exc |-> "", val |-> None, line |-> 175]
         ELSE [exc |-> "", val |-> Some(sanitize_user_response(user[1])),
               line |-> 178]

\* the positions in the collection of the records whose email is the
\* lowercased, trimmed form of email
Stored(coll, email) ==
    { k \in 1 .. Len(coll) :
        coll[k].email = RStrip(LStrip([i \in 1 .. Len(email) |-> LowerChar(email[i])])) }

\* the collection as the model finds it: an active administrator, a
\* deactivated user, and a record provisioned without password or active flag
SeedUsers ==
    << [_id |-> ObjectId("id1"), email |-> EmailA,
        password_hash |-> BcryptHash(Password1, "salt1"),
        name |-> << "A" >>, role |-> "admin", created_at |-> "t0", active |-> TRUE],
       [_id |-> ObjectId("id2"), email |-> EmailB,
        password_hash |-> BcryptHash(Password2, "salt2"),
        name |-> << "B" >>, role |-> "user", created_at |-> "t0", active |-> FALSE],
       [_id |-> ObjectId("id3"), email |-> EmailC,
        name |-> << "C" >>, role |-> "user", created_at |-> "t0"] >>

\* the emails and passwords callers send
EmailInputs ==
    { EmailA, << "A", "@", "X" >>, << " ", "a", "@", "x", " " >>,
      EmailB, << "B", "@", "x", " " >>, EmailC, << "z", "@", "x" >> }

PasswordInputs == { Password1, Password2, WrongPassword }

(* shared/validators/validators.py *)

\* validate_required_fields(data, fields): None and "" are both << >>
MissingFields(data, fields) ==
    { k \in DOMAIN fields : fields[k] \notin DOMAIN data \/ data[fields[k]] = << >> }

validate_required_fields(data, fields) ==
    LET missing == MissingFields(data, fields) IN
    IF missing = { } THEN [ok |-> TRUE, msg |-> << >>]
    ELSE [ok |-> FALSE,
          msg |-> << "Field is required",
                     fields[CHOOSE k \in missing : \A j \in missing : k <= j] >>]

sanitize_email(email) == IF email = << >> THEN << >> ELSE Strip(Lower(email))

sanitize_string(value) == IF value = << >> THEN << >> ELSE Strip(value)

\* the pattern of validate_email, line 24:
\* ^[a-zA-Z0-9._%+-]+@[a-zA-Z0-9.-]+\.[a-zA-Z]{2,}$
Letters ==
    { "a", "b", "c", "d", "e", "f", "g", "h", "i", "j", "k", "l", "m", "n", "o",
      "p", "q", "r", "s", "t", "u", "v", "w", "x", "y", "z",
      "A", "B", "C", "D", "E", "F", "G", "H", "I", "J", "K", "L", "M", "N", "O",
      "P", "Q", "R", "S", "T", "U", "V", "W", "X", "Y", "Z" }
Digits == { "0", "1", "2", "3", "4", "5", "6", "7", "8", "9" }
LocalChars == Letters \cup Digits \cup { ".", "_", "%", "+", "-" }
DomainChars == Letters \cup Digits \cup { ".", "-" }

MatchesEmailPattern(s) ==
    \E i, j \in 1 .. Len(s) :
        /\ 1 < i /\ i + 1 < j /\ j + 2 <= Len(s)
        /\ s[i] = "@" /\ s[j] = "."
        /\ \A k \in 1 .. (i - 1) : s[k] \in LocalChars
        /\ \A k \in (i + 1) .. (j - 1) : s[k] \in DomainChars
        /\ \A k \in (j + 1) .. Len(s) : s[k] \in Letters

validate_email(email) ==
    IF email = << >> THEN [ok |-> FALSE, msg |-> << "Email is required" >>]
    ELSE IF ~MatchesEmailPattern(Lower(Strip(email)))
         THEN [ok |-> FALSE, msg |-> << "Invalid email format" >>]
         ELSE [ok |-> TRUE, msg |-> << >>]

validate_password(password) ==
    IF password = << >> THEN [ok |-> FALSE, msg |-> << "Password is required" >>]
    ELSE IF Len(password) < MIN_PASSWORD_LENGTH
         THEN [ok |-> FALSE, msg |-> << "Password must be at least characters",
                                        MIN_PASSWORD_LENGTH >>]
         ELSE [ok |-> TRUE, msg |-> << >>]

\* generate_token that grants every account the admin role
generate_token_AlwaysAdmin(user_id, email, role, t1, t2) ==
    jwt_encode([user_id |-> user_id, email |-> email, role |-> "admin",
                exp |-> t1 + TTL, iat |-> t2], JWT_SECRET, JWT_ALGORITHM)

(* shared/auth.py, generate_token: the clock is read at t1 for exp (line 37)
   and at t2 for iat (line 38) *)
generate_token(user_id, email, role, t1, t2) ==
    jwt_encode([user_id |-> user_id, email |-> email, role |-> role,
                exp |-> t1 + TTL, iat |-> t2], JWT_SECRET, JWT_ALGORITHM)

(* auth_login/__init__.py, main: POST /auth/login *)

MsgInvalidCredentials == << "Invalid email or password" >>

\* login that tells a client when no account has the email
auth_login_main_TellsNotFound(coll, method, body, t1, t2) ==
    LET valid == validate_required_fields(body, << "email", "password" >>)
        email == sanitize_email(body.email)
        user == authenticate_user(coll, email, body.password)
        tok == generate_token(user.val[1]._id, user.val[1].email,
                              Get(user.val[1], "role", "user"), t1, t2)
        none == [exc |-> "", val |-> None, line |-> 0]
    IN
    IF import_errors
    THEN [resp |-> error_response(<< "Login failed due to server import errors" >>,
                                  503, None),
          user |-> none, token |-> None]
    ELSE IF method = "OPTIONS"
    THEN [resp |-> [status |-> 200, body |-> [raw |-> ""]], user |-> none,
          token |-> None]
    ELSE IF method # "POST"
    THEN [resp |-> error_response(<< "Method not allowed" >>, 405, None),
          user |-> none, token |-> None]
    ELSE IF DOMAIN body = { }
    THEN [resp |-> error_response(<< "Request body is required" >>, 400, None),
          user |-> none, token |-> None]
    ELSE IF ~valid.ok
    THEN [resp |-> error_response(valid.msg, 400, None), user |-> none,
          token |-> None]
    ELSE IF user.exc # ""
    THEN [resp |-> error_response(<< "Failed to authenticate" >>, 500,
                                  Some(user.exc)),
          user |-> user, token |-> None]
    ELSE IF ~user_exists(coll, email)
    THEN [resp |-> error_response(<< "User not found" >>, 404, None),
          user |-> user, token |-> None]
    ELSE IF user.val = None
    THEN [resp |-> unauthorized_response(MsgInvalidCredentials), user |-> user,
          token |-> None]
    ELSE [resp |-> success_response(
                       [_id |-> user.val[1]._id, email |-> user.val[1].email,
                        name |-> Get(user.val[1], "name", << >>),
                        role |-> Get(user.val[1], "role", "user"),
                        token |-> tok], 200),
          user |-> user, token |-> Some(tok)]

\* lines 143-299: the response, what authenticate_user returned, and the
\* token generated
auth_login_main(coll, method, body, t1, t2) ==
    LET valid == validate_required_fields(body, << "email", "password" >>)
        email == sanitize_email(body.email)
        user == authenticate_user(coll, email, body.password)
        tok == generate_token(user.val[1]._id, user.val[1].email,
                              Get(user.val[1], "role", "user"), t1, t2)
        none == [exc |-> "", val |-> None, line |-> 0]
    IN
    IF import_errors
    THEN [resp |-> error_response(<< "Login failed due to server import errors" >>,
                                  503, None),
          user |-> none, token |-> None]
    ELSE IF method = "OPTIONS"
    THEN [resp |-> [status |-> 200, body |-> [raw |-> ""]], user |-> none,
          token |-> None]
    ELSE IF method # "POST"
    THEN [resp |-> error_response(<< "Method not allowed" >>, 405, None),
          user |-> none, token |-> None]
    ELSE IF DOMAIN body = { }
    THEN [resp |-> error_response(<< "Request body is required" >>, 400, None),
          user |-> none, token |-> None]
    ELSE IF ~valid.ok
    THEN [resp |-> error_response(valid.msg, 400, None), user |-> none,
          token |-> None]
    ELSE IF user.exc # ""
    THEN [resp |-> error_response(<< "Failed to authenticate" >>, 500,
                                  Some(user.exc)),
          user |-> user, token |-> None]
    ELSE IF user.val = None
    THEN [resp |-> unauthorized_response(MsgInvalidCredentials), user |-> user,
          token |-> None]
    ELSE [resp |-> success_response(
                       [_id |-> user.val[1]._id, email |-> user.val[1].email,
                        name |-> Get(user.val[1], "name", << >>),
                        role |-> Get(user.val[1], "role", "user"),
                        token |-> tok], 200),
          user |-> user, token |-> Some(tok)]

\* the bodies clients post to /auth/login
LoginBodies ==
    { [email |-> e, password |-> p] : e \in EmailInputs, p \in PasswordInputs }
    \cup { << >>, [email |-> EmailA], [email |-> << >>, password |-> Password1] }

(* shared/services/users.py, create_user and get_all_users *)

\* create_user whose document is built before the hash is attached
user_doc_NoHash(email, password_hash, name, role) ==
    [email |-> email, name |-> Strip(name), role |-> role,
     created_at |-> "now", active |-> TRUE]

\* lines 115-122
user_doc(email, password_hash, name, role) ==
    [email |-> email, password_hash |-> password_hash, name |-> Strip(name),
     role |-> role, created_at |-> "now", active |-> TRUE]

\* the ObjectId the store gives the n-th document of the collection
IdText == << "id1", "id2", "id3", "id4", "id5", "id6", "id7", "id8" >>
NewObjectId(coll) == ObjectId(IdText[Len(coll) + 1])

\* insert_one against a collection with a unique index on email: a second
\* document with the email is not stored
insert_one_UniqueEmail(coll, document) ==
    IF \E k \in 1 .. Len(coll) : coll[k].email = document.email THEN coll
    ELSE Append(coll, [f \in DOMAIN document \cup { "_id" } |->
                         IF f = "_id" THEN NewObjectId(coll) ELSE document[f]])

\* collection.insert_one(document): the document is appended under a new _id
insert_one(coll, document) ==
    Append(coll, [f \in DOMAIN document \cup { "_id" } |->
                     IF f = "_id" THEN NewObjectId(coll) ELSE document[f]])

\* lines 126-130: what create_user returns for the document just inserted
created_user(coll, document) ==
    sanitize_user_response(
        [f \in DOMAIN document \cup { "_id" } |->
            IF f = "_id" THEN Str(NewObjectId(coll).oid) ELSE document[f]])

\* collection.find({}, {"password_hash": 0}), then lines 83-85
get_all_users(coll) ==
    [k \in 1 .. Len(coll) |->
        convert_objectid_to_str(exclude_fields(coll[k], { "password_hash" }))]

(* auth_register/__init__.py, main, and users/__init__.py, create_user *)

MsgUserExists == << "User with this email already exists" >>

\* a request that carries no body bytes
NoBody == [absent |-> TRUE]

\* HttpRequest.get_json(), register line 107 and users line 131: raises
\* ValueError when the body bytes are not a JSON document
get_json(body) ==
    IF "absent" \in DOMAIN body THEN [exc |-> "ValueError", val |-> None]
    ELSE [exc |-> "", val |-> Some(body)]

\* lines 104-131 of register (138-156 of the users endpoint): what the handler
\* answers before it looks at the store, or None when the request goes on
validated(kind, method, body) ==
    LET required == validate_required_fields(body, << "email", "password", "name" >>)
        email == validate_email(sanitize_email(body.email))
        password == validate_password(body.password)
    IN
    IF import_errors
    THEN Some(json_response(
                 [error |-> IF kind = "register"
                            THEN << "Registration service unavailable (import errors)" >>
                            ELSE << "Users service unavailable (import errors)" >>],
                 503))
    ELSE IF method # "POST"
    THEN Some(error_response(<< "Method not allowed" >>, 405, None))
    ELSE IF get_json(body).exc # ""
    THEN Some(error_response(IF kind = "register"
                             THEN << "Failed to register user" >>
                             ELSE << "Internal server error" >>,
                             500, Some(get_json(body).exc)))
    ELSE IF DOMAIN body = { }
    THEN Some(error_response(<< "Request body is required" >>, 400, None))
    ELSE IF ~required.ok THEN Some(error_response(required.msg, 400, None))
    ELSE IF ~email.ok THEN Some(error_response(email.msg, 400, None))
    ELSE IF ~password.ok THEN Some(error_response(password.msg, 400, None))
    ELSE None

NewEmail == << "n", "@", "x", ".", "i", "o" >>
NewEmailVariant == << " ", "N", "@", "X", ".", "i", "o" >>
NewEmailUpper == << "N", "@", "X", ".", "I", "O" >>

\* the bodies clients post to /auth/register and to /users
RegisterBodies ==
    { [email |-> NewEmail, password |-> Password1, name |-> << "N" >>],
      [email |-> NewEmailVariant, password |-> Password2, name |-> << "N", " " >>,
       role |-> "admin"],
      [email |-> NewEmail, password |-> LongPasswordB, name |-> << "N" >>],
      [email |-> NewEmail, password |-> ShortPassword, name |-> << "N" >>],
      [email |-> << "n", "@", "x" >>, password |-> Password1, name |-> << "N" >>],
      [email |-> NewEmail, password |-> Password1],
      << >>,
      NoBody }

\* the salts bcrypt.gensalt() draws
Salts == { "salt3", "salt4" }

\* the workers that serve register and create-user requests side by side
Workers == 1 .. 2

IdleRequest == [pc |-> "idle"]

(* shared/db_connection.py: the module-level cache and the threads of one
   process that call get_database / get_mongo_client.  A client object is
   named by the order of its construction; the database object built from
   client c is named c as well. *)

\* the threads of the process's thread pool
Threads == 1 .. 2

IdleThread == [pc |-> "idle", entry |-> "", client |-> None, got |-> None, exc |-> ""]

\* the module after import: lines 11-19, MONGODB_CONNECTION_STRING set or not
ClientCache(connection_string) ==
    [ _pymongo_client |-> None,
      _database |-> None,
      connection_string |-> connection_string,
      built |-> 0,
      pinged |-> {},
      failed |-> {},
      th |-> [t \in Threads |-> IdleThread] ]

NoClient == ClientCache(TRUE)

----------------------------------------------------------------------------
InitRest ==
    /\ now = 0
    /\ gen = None
    /\ issued = {}
    /\ import_errors \in BOOLEAN
    /\ pc = "idle"
    /\ route = ""
    /\ req = [header |-> << >>, user |-> None]
    /\ require_role = None
    /\ token = None
    /\ payload = None
    /\ vt = None
    /\ log = ""
    /\ resp = None
    /\ escaped = FALSE
    /\ calls = 0
    /\ seen = None
    /\ hresp = None
    /\ users = SeedUsers
    /\ call = None
    /\ ret = None
    /\ reg = [w \in Workers |-> IdleRequest]
    /\ started = 0
    /\ bcrypt_strict \in BOOLEAN

Init == InitRest /\ db = NoClient

Tick ==
    /\ \E t \in Instants :
         /\ t > now
         /\ gen # None => t <= gen[1].t1 + MaxGenDelay
         /\ now' = t
    /\ UNCHANGED << storeVars, tokenVars, import_errors, gateVars >>

(* generate_token: lines 33-39 read the clock twice, line 41 encodes *)

GenerateTokenExp ==
    /\ ~import_errors
    /\ gen = None
    /\ Cardinality(issued) < MaxIssued
    /\ now <= MaxIssueTick
    /\ \E u \in Identities :
         gen' = Some([user_id |-> u.user_id, email |-> u.email, role |-> u.role,
                      exp |-> now + TTL, t1 |-> now])
    /\ UNCHANGED << storeVars, now, issued, import_errors, gateVars >>

GenerateTokenIat ==
    /\ gen # None
    /\ LET p == [user_id |-> gen[1].user_id, email |-> gen[1].email,
                 role |-> gen[1].role, exp |-> gen[1].exp, iat |-> now]
       IN issued' = issued \cup { [token |-> jwt_encode(p, JWT_SECRET, JWT_ALGORITHM),
                                   T |-> gen[1].t1, claims |-> p] }
    /\ gen' = None
    /\ UNCHANGED << storeVars, now, import_errors, gateVars >>

(* require_auth(require_role)(func_handler): the wrapper, statement by statement *)

MsgAuthRequired == << "Authentication required. Please provide a valid token." >>
MsgInvalidToken == << "Invalid or expired token. Please login again." >>
MsgForbidden(required, current) ==
    << "This endpoint requires role; current role is", required, current >>
MsgAuthError(e) == << "Authentication error", e >>

\* a request reaches an endpoint decorated with require_auth(require_role = rr)
GateStartWith(headers) ==
    /\ pc = "idle"
    /\ ~import_errors
    /\ \E h \in headers, rr \in RequireRoles :
         /\ req' = [header |-> h, user |-> None]
         /\ require_role' = rr
    /\ route' = "guarded"
    /\ pc' = "extract"
    /\ UNCHANGED << storeVars, now, tokenVars, import_errors, token, payload, vt, log, resp,
                    escaped, calls, seen, hresp >>

GateStart == GateStartWith(Headers)

\* lines 103-106
GateExtract ==
    /\ pc = "extract"
    /\ token' = get_token_from_request(req)
    /\ IF Falsy(token')
       THEN /\ resp' = Some(unauthorized_response(MsgAuthRequired))
            /\ pc' = "done"
       ELSE /\ pc' = "verify"
            /\ UNCHANGED resp
    /\ UNCHANGED << storeVars, now, tokenVars, import_errors, route, req, require_role,
                    payload, vt, log, escaped, calls, seen, hresp >>

\* the wrapper with the role looked at before the token is verified
GateVerify_RoleFirst ==
    /\ pc = "verify"
    /\ LET r == verify_token(token[1], now) IN
         /\ vt' = Some(now)
         /\ IF /\ IsJWT(token[1])
               /\ require_role # None
               /\ token[1][1].claims.role # require_role[1]
            THEN /\ resp' = Some(forbidden_response(
                           MsgForbidden(require_role[1], token[1][1].claims.role)))
                 /\ pc' = "done"
                 /\ UNCHANGED << payload, log >>
            ELSE /\ payload' = r.val
                 /\ log' = r.log
                 /\ IF r.val = None
                    THEN /\ resp' = Some(unauthorized_response(MsgInvalidToken))
                         /\ pc' = "done"
                    ELSE /\ pc' = "role"
                         /\ UNCHANGED resp
    /\ UNCHANGED << storeVars, now, tokenVars, import_errors, route, req, require_role,
                    token, escaped, calls, seen, hresp >>

\* lines 108-111 (and 121-123 when verify_token raises)
GateVerify ==
    /\ pc = "verify"
    /\ LET r == verify_token(token[1], now) IN
         /\ vt' = Some(now)
         /\ IF r.exc # ""
            THEN /\ log' = "Error in authentication decorator"
                 /\ resp' = Some(unauthorized_response(MsgAuthError(r.exc)))
                 /\ pc' = "done"
                 /\ UNCHANGED payload
            ELSE /\ payload' = r.val
                 /\ log' = r.log
                 /\ IF r.val = None
                    THEN /\ resp' = Some(unauthorized_response(MsgInvalidToken))
                         /\ pc' = "done"
                    ELSE /\ pc' = "role"
                         /\ UNCHANGED resp
    /\ UNCHANGED << storeVars, now, tokenVars, import_errors, route, req, require_role,
                    token, escaped, calls, seen, hresp >>

\* the wrapper with the role test left out
GateRole_NoCheck ==
    /\ pc = "role"
    /\ pc' = "attach"
    /\ UNCHANGED << storeVars, now, tokenVars, import_errors, route, req, require_role,
                    token, payload, vt, log, resp, escaped, calls, seen, hresp >>

\* the wrapper with the role read from the user's record in the store
GateRole_FromStore ==
    /\ pc = "role"
    /\ LET u == find_user_by_email(users, payload[1].email)
           current == IF u = None THEN "none" ELSE u[1].role
       IN
       IF require_role # None /\ current # require_role[1]
       THEN /\ resp' = Some(forbidden_response(
                              MsgForbidden(require_role[1], current)))
            /\ pc' = "done"
       ELSE /\ pc' = "attach"
            /\ UNCHANGED resp
    /\ UNCHANGED << storeVars, now, tokenVars, import_errors, route, req, require_role,
                    token, payload, vt, log, escaped, calls, seen, hresp >>

\* lines 114-115
GateRole ==
    /\ pc = "role"
    /\ IF require_role # None /\ payload[1].role # require_role[1]
       THEN /\ resp' = Some(forbidden_response(
                              MsgForbidden(require_role[1], payload[1].role)))
            /\ pc' = "done"
       ELSE /\ pc' = "attach"
            /\ UNCHANGED resp
    /\ UNCHANGED << storeVars, now, tokenVars, import_errors, route, req, require_role,
                    token, payload, vt, log, escaped, calls, seen, hresp >>

\* the wrapper without line 118
GateAttach_Skipped ==
    /\ pc = "attach"
    /\ pc' = "call"
    /\ UNCHANGED << storeVars, now, tokenVars, import_errors, route, req, require_role, token,
                    payload, vt, log, resp, escaped, calls, seen, hresp >>

\* line 118
GateAttach ==
    /\ pc = "attach"
    /\ req' = [req EXCEPT !.user = payload]
    /\ pc' = "call"
    /\ UNCHANGED << storeVars, now, tokenVars, import_errors, route, require_role, token,
                    payload, vt, log, resp, escaped, calls, seen, hresp >>

\* line 120: the wrapped handler runs and returns a response
GateCall ==
    /\ pc = "call"
    /\ calls' = calls + 1
    /\ seen' = req.user
    /\ \E r \in HandlerResponses :
         /\ hresp' = Some(r)
         /\ resp' = Some(r)
    /\ pc' = "done"
    /\ UNCHANGED << storeVars, now, tokenVars, import_errors, route, req, require_role,
                    token, payload, vt, log, escaped >>

\* the handler called outside the try block, its error answered by the host
GateCallRaises_ServerError ==
    /\ pc = "call"
    /\ calls' = calls + 1
    /\ seen' = req.user
    /\ log' = "Error in authentication decorator"
    /\ resp' = Some(error_response(<< "Internal server error" >>, 500, None))
    /\ pc' = "done"
    /\ UNCHANGED << storeVars, now, tokenVars, import_errors, route, req, require_role,
                    token, payload, vt, escaped, hresp >>

\* line 120, lines 121-123: the wrapped handler raises inside the try block
GateCallRaises ==
    /\ pc = "call"
    /\ calls' = calls + 1
    /\ seen' = req.user
    /\ log' = "Error in authentication decorator"
    /\ resp' = Some(unauthorized_response(MsgAuthError("handler error")))
    /\ pc' = "done"
    /\ UNCHANGED << storeVars, now, tokenVars, import_errors, route, req, require_role,
                    token, payload, vt, escaped, hresp >>

\* the wrapper without its try/except: the error leaves it
GateError_Escapes ==
    /\ pc \in { "extract", "verify", "role", "attach" }
    /\ escaped' = TRUE
    /\ pc' = "done"
    /\ UNCHANGED << storeVars, now, tokenVars, import_errors, route, req, require_role,
                    token, payload, vt, log, resp, calls, seen, hresp >>

\* lines 121-123: an unexpected error in one of the statements 103-118
GateError ==
    /\ pc \in { "extract", "verify", "role", "attach" }
    /\ log' = "Error in authentication decorator"
    /\ resp' = Some(unauthorized_response(MsgAuthError("internal error")))
    /\ pc' = "done"
    /\ UNCHANGED << storeVars, now, tokenVars, import_errors, route, req, require_role,
                    token, payload, vt, escaped, calls, seen, hresp >>

\* a fallback decorator that hands the request to the handler unchecked
GateUnavailable_FailsOpen ==
    /\ pc = "idle"
    /\ import_errors
    /\ \E h \in Headers, rr \in RequireRoles, r \in HandlerResponses :
         /\ req' = [header |-> h, user |-> None]
         /\ require_role' = rr
         /\ hresp' = Some(r)
         /\ resp' = Some(r)
    /\ route' = "guarded"
    /\ calls' = calls + 1
    /\ pc' = "done"
    /\ UNCHANGED << storeVars, now, tokenVars, import_errors, token, payload, vt,
                    log, escaped, seen >>

\* shared/function_bootstrap.py, safe_require_auth: shared.auth did not
\* import, so the decorator is require_auth_fallback and the wrapper answers 503
GateUnavailable ==
    /\ pc = "idle"
    /\ import_errors
    /\ \E h \in Headers, rr \in RequireRoles :
         /\ req' = [header |-> h, user |-> None]
         /\ require_role' = rr
    /\ route' = "guarded"
    /\ resp' = Some(error_response(<< "Authentication system unavailable" >>, 503,
                                None))
    /\ pc' = "done"
    /\ UNCHANGED << storeVars, now, tokenVars, import_errors, token, payload, vt, log,
                    escaped, calls, seen, hresp >>

(* auth_verify/__init__.py, main: GET /auth/verify *)

MsgTokenRequired ==
    << "Token required. Please provide a valid JWT token in the Authorization header." >>
MsgVerifyInvalid ==
    << "Invalid or expired token. Please login again to get a new token." >>

VerifyMainWith(headers) ==
    /\ pc = "idle"
    /\ route' = "verify"
    /\ pc' = "done"
    /\ \E method \in { "GET", "OPTIONS" }, h \in headers :
        LET rq == [header |-> h, user |-> None]
            tk == get_token_from_request(rq)
            r == verify_token(tk[1], now)
        IN
        /\ req' = rq
        /\ IF method = "OPTIONS"
           THEN /\ resp' = Some([status |-> 200, body |-> [raw |-> ""]])
                /\ UNCHANGED << token, payload, vt, log >>
           ELSE IF import_errors
           THEN /\ resp' = Some(json_response(
                         [error |-> << "Auth verify service unavailable (import errors)" >>],
                         503))
                /\ UNCHANGED << token, payload, vt, log >>
           ELSE IF Falsy(tk)
           THEN /\ token' = tk
                /\ resp' = Some(unauthorized_response(MsgTokenRequired))
                /\ UNCHANGED << payload, vt, log >>
           ELSE IF r.exc # ""
           THEN /\ token' = tk
                /\ vt' = Some(now)
                /\ log' = "Error verifying token"
                /\ resp' = Some(error_response(<< "Failed to verify token" >>, 500,
                                           Some(r.exc)))
                /\ UNCHANGED payload
           ELSE /\ token' = tk
                /\ payload' = r.val
                /\ log' = r.log
                /\ vt' = Some(now)
                /\ IF r.val = None
                   THEN resp' = Some(unauthorized_response(MsgVerifyInvalid))
                   ELSE resp' = Some(success_response(
                                  [user_id |-> r.val[1].user_id,
                                   email |-> r.val[1].email,
                                   role |-> r.val[1].role,
                                   valid |-> TRUE], 200))
    /\ UNCHANGED << storeVars, now, tokenVars, import_errors, require_role, escaped, calls,
                    seen, hresp >>

VerifyMain == VerifyMainWith(Headers)

\* lines 95-101: an unexpected error inside main's try block
VerifyMainError ==
    /\ pc = "idle"
    /\ ~import_errors
    /\ route' = "verify"
    /\ pc' = "done"
    /\ \E h \in Headers : req' = [header |-> h, user |-> None]
    /\ log' = "Error verifying token"
    /\ resp' = Some(error_response(<< "Failed to verify token" >>, 500,
                                Some("internal error")))
    /\ UNCHANGED << storeVars, now, tokenVars, import_errors, require_role, token, payload,
                    vt, escaped, calls, seen, hresp >>

\* the response has been sent; the next request starts from scratch
Respond ==
    /\ pc = "done"
    /\ pc' = "idle"
    /\ route' = ""
    /\ req' = [header |-> << >>, user |-> None]
    /\ require_role' = None
    /\ token' = None
    /\ payload' = None
    /\ vt' = None
    /\ log' = ""
    /\ resp' = None
    /\ escaped' = FALSE
    /\ calls' = 0
    /\ seen' = None
    /\ hresp' = None
    /\ UNCHANGED << storeVars, now, tokenVars, import_errors >>

Next ==
    \/ Tick
    \/ GenerateTokenExp
    \/ GenerateTokenIat
    \/ GateStart
    \/ GateExtract
    \/ GateVerify
    \/ GateRole
    \/ GateAttach
    \/ GateCall
    \/ GateCallRaises
    \/ GateError
    \/ GateUnavailable
    \/ VerifyMain
    \/ VerifyMainError
    \/ Respond

Spec == Init /\ [][Next]_vars
----------------------------------------------------------------------------
(* The user service on its own: calls of shared/services/users.py against the
   collection, and the collection written from outside the API *)

InitUsers == Init /\ ~import_errors

AuthenticateWith(emails, passwords) ==
    /\ call = None
    /\ \E email \in emails, password \in passwords :
         /\ call' = Some([op |-> "authenticate_user", email |-> email,
                          password |-> password])
         /\ ret' = Some(authenticate_user(users, email, password))
    /\ UNCHANGED << users, reg, started, bcrypt_strict, db, now, tokenVars, import_errors, gateVars >>

Authenticate == AuthenticateWith(EmailInputs, PasswordInputs)

\* the caller has taken the result
Return ==
    /\ call # None
    /\ call' = None
    /\ ret' = None
    /\ UNCHANGED << users, reg, started, bcrypt_strict, db, now, tokenVars, import_errors, gateVars >>

\* an operator sets or clears the active flag of a record in the database
OperatorSetActive ==
    /\ call = None
    /\ \E k \in 1 .. Len(users), b \in BOOLEAN :
         users' = [users EXCEPT ![k] =
                      [f \in DOMAIN users[k] \cup { "active" } |->
                          IF f = "active" THEN b ELSE users[k][f]]]
    /\ UNCHANGED << call, ret, reg, started, bcrypt_strict, db, now, tokenVars, import_errors, gateVars >>

\* an operator blanks or overwrites the password_hash of a record
OperatorSetHash ==
    /\ call = None
    /\ \E k \in 1 .. Len(users), h \in { EmptyStr, MalformedHash } :
         users' = [users EXCEPT ![k] =
                      [f \in DOMAIN users[k] \cup { "password_hash" } |->
                          IF f = "password_hash" THEN h ELSE users[k][f]]]
    /\ UNCHANGED << call, ret, reg, started, bcrypt_strict, db, now, tokenVars, import_errors, gateVars >>

\* the passwords and hash strings the hasher is called with
HasherPasswords ==
    { Password1, Password2, ShortPassword, LongPasswordB, LongPasswordC }

HasherHashes ==
    { EmptyStr, MalformedHash }
    \cup { BcryptHash(p, salt) : p \in HasherPasswords, salt \in Salts }

\* verify_password(q, hash_password(p)) for a password p and a candidate q
HashThenVerify ==
    /\ call = None
    /\ \E p \in HasherPasswords, q \in HasherPasswords, salt \in Salts :
         LET hashed == hash_password(p, salt) IN
         /\ call' = Some([op |-> "hash_then_verify", password |-> p,
                          candidate |-> q, salt |-> salt])
         /\ ret' = Some([hashed |-> hashed,
                         verified |-> IF hashed.exc = ""
                                      THEN verify_password(q, hashed.val)
                                      ELSE [exc |-> hashed.exc, val |-> FALSE]])
    /\ UNCHANGED << users, reg, started, bcrypt_strict, db, now, tokenVars,
                    import_errors, gateVars >>

\* verify_password(password, password_hash) for any hash string
VerifyPassword ==
    /\ call = None
    /\ \E p \in HasherPasswords, h \in HasherHashes :
         /\ call' = Some([op |-> "verify_password", password |-> p, hash |-> h])
         /\ ret' = Some(verify_password(p, h))
    /\ UNCHANGED << users, reg, started, bcrypt_strict, db, now, tokenVars,
                    import_errors, gateVars >>

\* the emails and roles update_user_role and user_exists are called with
RoleEmails == { << "A", "@", "X" >>, << "B", "@", "x", " " >>, << "z", "@", "x" >>,
                NewEmailUpper }

Roles == { "admin", "user" }

\* update_user_role(email, new_role); before is the collection as the call
\* found it
UpdateUserRoleWith(emails) ==
    /\ call = None
    /\ \E email \in emails, new_role \in Roles, provider \in Providers :
         LET r == update_user_role(users, email, new_role, provider) IN
         /\ call' = Some([op |-> "update_user_role", email |-> email,
                          new_role |-> new_role, provider |-> provider,
                          before |-> users])
         /\ ret' = Some([val |-> r.val, written |-> r.written])
         /\ users' = r.coll
    /\ UNCHANGED << reg, started, bcrypt_strict, db, now, tokenVars, import_errors,
                    gateVars >>

UpdateUserRole == UpdateUserRoleWith(RoleEmails)

\* user_exists(email)
UserExists ==
    /\ call = None
    /\ \E email \in RoleEmails :
         /\ call' = Some([op |-> "user_exists", email |-> email])
         /\ ret' = Some([val |-> user_exists(users, email)])
    /\ UNCHANGED << users, reg, started, bcrypt_strict, db, now, tokenVars,
                    import_errors, gateVars >>

NextUsers ==
    \/ Authenticate
    \/ HashThenVerify
    \/ VerifyPassword
    \/ Return
    \/ OperatorSetActive
    \/ OperatorSetHash

SpecUsers == InitUsers /\ [][NextUsers]_vars

----------------------------------------------------------------------------
(* The account endpoints: /auth/login, /auth/register, /users and
   /auth/verify served side by side over one collection *)

\* the clock readings a generate_token that starts now can make for iat
IatReadings == { t \in Instants : now <= t /\ t <= now + MaxGenDelay }

LoginWith(methods, bodies) ==
    /\ call = None
    /\ now <= MaxIssueTick
    /\ \E method \in methods, body \in bodies, t2 \in IatReadings :
         LET r == auth_login_main(users, method, body, now, t2) IN
         /\ call' = Some([op |-> "login", method |-> method, body |-> body,
                          email |-> Get(body, "email", << >>),
                          password |-> Get(body, "password", << >>),
                          after |-> started])
         /\ ret' = Some(r)
         /\ now' = IF r.token = None THEN now ELSE t2
    /\ UNCHANGED << users, reg, started, bcrypt_strict, db, tokenVars, import_errors,
                    gateVars >>

Login == LoginWith({ "POST", "GET", "OPTIONS" }, LoginBodies)

\* lines 275-299: the store does not answer and find_one raises
LoginStoreError ==
    /\ call = None
    /\ ~import_errors
    /\ \E body \in LoginBodies :
         /\ DOMAIN body # { }
         /\ validate_required_fields(body, << "email", "password" >>).ok
         /\ call' = Some([op |-> "login", method |-> "POST", body |-> body,
                          email |-> body.email, password |-> body.password,
                          after |-> started])
         /\ ret' = Some([resp |-> error_response(<< "Failed to authenticate" >>, 500,
                                                 Some("ServerSelectionTimeoutError")),
                         user |-> [exc |-> "ServerSelectionTimeoutError",
                                   val |-> None, line |-> 163],
                         token |-> None])
    /\ UNCHANGED << users, reg, started, bcrypt_strict, db, now, tokenVars,
                    import_errors, gateVars >>

\* a register or create-user request arrives at worker w; lines 82-131
RegisterStartWith(w, bodies) ==
    /\ reg[w].pc = "idle"
    /\ started < MaxRequests
    /\ now <= MaxIssueTick
    /\ started' = started + 1
    /\ \E kind \in { "register", "users" }, method \in { "POST", "GET" },
          body \in bodies :
         LET early == validated(kind, method, body) IN
         /\ kind = "users" => method = "POST"
         /\ reg' = [reg EXCEPT ![w] =
                IF early # None
                THEN [pc |-> "done", n |-> started + 1, kind |-> kind,
                      method |-> method,
                      body |-> body, existed |-> FALSE, inserted |-> FALSE,
                      resp |-> early[1]]
                ELSE [pc |-> "check", n |-> started + 1, kind |-> kind,
                      method |-> method, body |-> body,
                      existed |-> Stored(users, body.email) # { },
                      inserted |-> FALSE,
                      email |-> sanitize_email(body.email),
                      password |-> body.password,
                      name |-> sanitize_string(body.name),
                      role |-> Get(body, "role", "user")]]
    /\ UNCHANGED << users, call, ret, bcrypt_strict, db, now, tokenVars, import_errors,
                    gateVars >>

RegisterStart(w) == RegisterStartWith(w, RegisterBodies)

\* the answer of worker w is ready
Answer(w, response) ==
    reg' = [reg EXCEPT ![w] = [f \in DOMAIN reg[w] \cup { "resp" } |->
                                  IF f = "pc" THEN "done"
                                  ELSE IF f = "resp" THEN response
                                  ELSE reg[w][f]]]

\* the handler's own existence check: register line 134, users line 159
RegisterCheck(w) ==
    /\ reg[w].pc = "check"
    /\ IF user_exists(users, reg[w].email)
       THEN Answer(w, error_response(MsgUserExists, 409, None))
       ELSE reg' = [reg EXCEPT ![w].pc = "create"]
    /\ UNCHANGED << users, call, ret, started, bcrypt_strict, db, now, tokenVars,
                    import_errors, gateVars >>

\* create_user lines 104-109; its ValueError is answered at register line 156
\* (users line 171)
CreateUserCheck(w) ==
    /\ reg[w].pc = "create"
    /\ IF user_exists(users, Strip(Lower(reg[w].email)))
       THEN Answer(w, error_response(MsgUserExists, 409, None))
       ELSE reg' = [reg EXCEPT ![w] =
                       [f \in DOMAIN reg[w] \cup { "passed_at" } |->
                           IF f = "pc" THEN "hash"
                           ELSE IF f = "email" THEN Strip(Lower(reg[w].email))
                           ELSE IF f = "passed_at" THEN Len(users)
                           ELSE reg[w][f]]]
    /\ UNCHANGED << users, call, ret, started, bcrypt_strict, db, now, tokenVars,
                    import_errors, gateVars >>

\* create_user line 112; an exception is answered at register line 163
\* (users line 178)
CreateUserHash(w) ==
    /\ reg[w].pc = "hash"
    /\ \E salt \in Salts :
         LET h == hash_password(reg[w].password, salt) IN
         IF h.exc # ""
         THEN Answer(w, error_response(
                            IF reg[w].kind = "register"
                            THEN << "Failed to register user" >>
                            ELSE << "Failed to create user" >>, 500, Some(h.exc)))
         ELSE reg' = [reg EXCEPT ![w] =
                         [f \in DOMAIN reg[w] \cup { "password_hash" } |->
                             IF f = "pc" THEN "insert"
                             ELSE IF f = "password_hash" THEN h.val
                             ELSE reg[w][f]]]
    /\ UNCHANGED << users, call, ret, started, bcrypt_strict, db, now, tokenVars,
                    import_errors, gateVars >>

\* create_user lines 115-130; the users endpoint answers at its line 165
CreateUserInsert(w) ==
    /\ reg[w].pc = "insert"
    /\ LET doc == user_doc(reg[w].email, reg[w].password_hash, reg[w].name,
                           reg[w].role)
           user == created_user(users, doc)
       IN
       /\ users' = insert_one(users, doc)
       /\ reg' = [reg EXCEPT ![w] =
              [f \in DOMAIN reg[w] \cup { "user", "resp" } |->
                  IF f = "pc"
                  THEN IF reg[w].kind = "register" THEN "token" ELSE "done"
                  ELSE IF f = "inserted" THEN TRUE
                  ELSE IF f = "user" THEN user
                  ELSE IF f = "resp"
                  THEN IF reg[w].kind = "register" THEN [status |-> 0]
                       ELSE success_response(user, 201)
                  ELSE reg[w][f]]]
    /\ UNCHANGED << call, ret, started, bcrypt_strict, db, now, tokenVars,
                    import_errors, gateVars >>

\* register lines 142-153
RegisterToken(w) ==
    /\ reg[w].pc = "token"
    /\ \E t2 \in IatReadings :
         LET user == reg[w].user
             tok == generate_token(user._id, user.email, Get(user, "role", "user"),
                                   now, t2)
         IN
         /\ Answer(w, success_response(
                          [_id |-> user._id, email |-> user.email,
                           name |-> user.name, role |-> user.role,
                           token |-> tok], 201))
         /\ now' = t2
    /\ UNCHANGED << users, call, ret, started, bcrypt_strict, db, tokenVars,
                    import_errors, gateVars >>

\* the store does not answer one of the calls: register lines 157-171,
\* users lines 106-112 and 172-178
RegisterStoreError(w) ==
    /\ reg[w].pc \in { "check", "create", "insert" }
    /\ Answer(w, error_response(
                     IF reg[w].kind = "register" THEN << "Failed to register user" >>
                     ELSE IF reg[w].pc = "check" THEN << "Internal server error" >>
                     ELSE << "Failed to create user" >>,
                     500, Some("ServerSelectionTimeoutError")))
    /\ UNCHANGED << users, call, ret, started, bcrypt_strict, db, now, tokenVars,
                    import_errors, gateVars >>

\* the host aborts the request of worker w between two of its steps
RegisterAbort(w) ==
    /\ reg[w].pc \in { "check", "create", "hash", "insert", "token" }
    /\ reg' = [reg EXCEPT ![w] = [pc |-> "aborted", at |-> reg[w].pc]]
    /\ UNCHANGED << users, call, ret, started, bcrypt_strict, db, now, tokenVars,
                    import_errors, gateVars >>

\* the response of worker w has been sent (or its request is gone)
RegisterEnd(w) ==
    /\ reg[w].pc \in { "done", "aborted" }
    /\ reg' = [reg EXCEPT ![w] = IdleRequest]
    /\ UNCHANGED << users, call, ret, started, bcrypt_strict, db, now, tokenVars,
                    import_errors, gateVars >>

\* users/__init__.py, get_users: GET /users behind the gate
UsersList ==
    /\ call = None
    /\ ~import_errors
    /\ call' = Some([op |-> "get_users"])
    /\ ret' = Some([resp |-> success_response(get_all_users(users), 200),
                    users |-> get_all_users(users)])
    /\ UNCHANGED << users, reg, started, bcrypt_strict, db, now, tokenVars,
                    import_errors, gateVars >>

\* the steps of the request worker w serves
Handle(w) ==
    \/ RegisterCheck(w)
    \/ CreateUserCheck(w)
    \/ CreateUserHash(w)
    \/ CreateUserInsert(w)
    \/ RegisterToken(w)
    \/ RegisterStoreError(w)
    \/ RegisterAbort(w)
    \/ RegisterEnd(w)

Serve(w) == RegisterStart(w) \/ Handle(w)

\* /auth/login on its own
NextLogin ==
    \/ Tick
    \/ Login
    \/ LoginStoreError
    \/ Return

SpecLogin == Init /\ [][NextLogin]_vars

(* One client's requests served one after another: register or create-user,
   login, list, verify *)

InitAccounts == Init /\ ~import_errors

ClientRegisters ==
    { [email |-> NewEmail, password |-> Password1, name |-> << "N" >>],
      [email |-> NewEmailVariant, password |-> Password2, name |-> << "N", " " >>,
       role |-> "admin"] }

ClientRegister == RegisterStartWith(1, ClientRegisters)

ClientLogins ==
    { [email |-> NewEmailUpper, password |-> Password1],
      [email |-> NewEmail, password |-> Password2],
      [email |-> EmailB, password |-> Password2] }

\* the tokens in the responses the client holds
ClientTokens ==
    { reg[w].resp.body.token :
        w \in { v \in Workers : reg[v].pc = "done" /\ reg[v].resp.status = 201
                                  /\ reg[v].kind = "register" } }
    \cup { ret[1].token[1] :
             x \in { y \in { 1 } : call # None /\ call[1].op = "login"
                                    /\ ret[1].token # None } }

ClientHeaders == { << >> } \cup { Bearer \o t : t \in ClientTokens }

\* no request of the client is being served
Quiet == \A w \in Workers : reg[w].pc \in { "idle", "done", "aborted" }

\* time passes between two requests of the client
ClientWaits == Quiet /\ Tick

\* the client sends a request once the one before it was answered
ClientLogin == Quiet /\ LoginWith({ "POST" }, ClientLogins)

ClientList == Quiet /\ UsersList

ClientVerify == Quiet /\ VerifyMainWith(ClientHeaders)

NextAccounts ==
    \/ ClientWaits
    \/ ClientRegister
    \/ Handle(1)
    \/ ClientLogin
    \/ ClientList
    \/ Return
    \/ ClientVerify
    \/ Respond

SpecAccounts == InitAccounts /\ [][NextAccounts]_vars

(* The calls that reach the users collection, one after another: register,
   login, verify, authenticate_user, user_exists and update_user_role *)

\* no call is in progress
StoreIdle == Quiet /\ call = None /\ pc = "idle"

StoreRegister == StoreIdle /\ ClientRegister

StoreLogin == StoreIdle /\ LoginWith({ "POST" }, ClientLogins)

StoreAuthenticate ==
    StoreIdle /\ AuthenticateWith({ << "A", "@", "X" >>, EmailB, NewEmailUpper },
                                  { Password1, Password2 })

StoreUserExists == StoreIdle /\ UserExists

StoreUpdateRole == StoreIdle /\ UpdateUserRole

\* verify is called with a token of the register or login answer at hand
StoreVerify ==
    /\ Quiet
    /\ IF call = None THEN TRUE ELSE call[1].op = "login"
    /\ VerifyMainWith(ClientHeaders)

NextStore ==
    \/ StoreRegister
    \/ Handle(1)
    \/ StoreLogin
    \/ StoreVerify
    \/ Respond
    \/ StoreAuthenticate
    \/ StoreUserExists
    \/ StoreUpdateRole
    \/ Return

SpecStore == InitAccounts /\ [][NextStore]_vars

(* The gate and /auth/verify while the users collection changes under them *)

\* the emails in the tokens issued so far, and where their records are
HolderEmails == { i.claims.email : i \in issued }

HolderRecords == UNION { Stored(users, e) : e \in HolderEmails }

\* an operator deletes a record from the database
OperatorRemove ==
    /\ call = None
    /\ Len(users) = Len(SeedUsers)
    /\ \E k \in HolderRecords :
         users' = [j \in 1 .. (Len(users) - 1) |->
                      IF j < k THEN users[j] ELSE users[j + 1]]
    /\ UNCHANGED << call, ret, reg, started, bcrypt_strict, db, now, tokenVars,
                    import_errors, gateVars >>

\* an operator deactivates an active account
OperatorDeactivate ==
    /\ call = None
    /\ \E k \in HolderRecords :
         /\ "active" \in DOMAIN users[k]
         /\ users[k].active
         /\ users' = [users EXCEPT ![k].active = FALSE]
    /\ UNCHANGED << call, ret, reg, started, bcrypt_strict, db, now, tokenVars,
                    import_errors, gateVars >>

\* the headers a holder of issued tokens sends
TokenHeaders == { << >> } \cup { Bearer \o i.token : i \in issued }

\* no request and no call is in progress
Between == pc = "idle" /\ call = None

\* the clock and generate_token, while no store call is waiting to return
HolderWaits == call = None /\ Tick

\* one holder is followed: every token is issued to the same user
HolderTokenExp ==
    /\ call = None
    /\ GenerateTokenExp
    /\ issued # { } => gen'[1].email \in HolderEmails

HolderTokenIat == call = None /\ GenerateTokenIat

HolderGate == Between /\ GateStartWith(TokenHeaders)

HolderVerify == Between /\ VerifyMainWith(TokenHeaders)

BetweenUpdateRole == Between /\ UpdateUserRoleWith(HolderEmails)

BetweenDeactivate == Between /\ OperatorDeactivate

BetweenRemove == Between /\ OperatorRemove

NextStateless ==
    \/ HolderWaits
    \/ HolderTokenExp
    \/ HolderTokenIat
    \/ HolderGate
    \/ GateExtract
    \/ GateVerify
    \/ GateRole
    \/ GateAttach
    \/ GateCall
    \/ HolderVerify
    \/ Respond
    \/ BetweenUpdateRole
    \/ Return
    \/ BetweenDeactivate
    \/ BetweenRemove

SpecStateless == InitAccounts /\ [][NextStateless]_vars

\* register and create-user requests served by the workers side by side
NextRegister == \E w \in Workers : Serve(w)

SpecRegister == Init /\ [][NextRegister]_vars

----------------------------------------------------------------------------
(* What the claims are stated in: facts about the request in flight that do
   not go through verify_token *)

\* the request carries a token: the header has something left after one
\* "Bearer " prefix
CarriesToken == req.header # << >> /\ req.header # Bearer

\* the token's signature verifies under the configured secret and algorithm
SignatureValid ==
    /\ token # None
    /\ IsJWT(token[1])
    /\ token[1][1].alg = JWT_ALGORITHM
    /\ token[1][1].key = JWT_SECRET

\* the clock read at verification was strictly before the token's exp claim
BeforeExpiry == vt # None /\ vt[1] < token[1][1].claims.exp * TicksPerSecond

TokenValid == SignatureValid /\ BeforeExpiry

RoleAllowed == require_role = None \/ token[1][1].claims.role = require_role[1]

InternalError == log \in { "Error in authentication decorator", "Error verifying token" }

Guarded == route = "guarded" /\ ~import_errors

----------------------------------------------------------------------------
\* C1: the handler wrapped by require_auth is invoked only if the request
\* carries a token, the token's signature is valid under the configured secret
\* and it was not expired when verified, and required_role is unset or equals
\* the role claim; in every other case the handler is never invoked.
C1_HandlerOnlyWhenAuthorized ==
    calls > 0 =>
        /\ Guarded
        /\ CarriesToken
        /\ TokenValid
        /\ RoleAllowed

C1_Witness_AdminAccepted ==
    /\ calls = 1
    /\ require_role = Some("admin")
    /\ TokenValid
    /\ token[1][1].claims.role = "admin"

\* C2: the gate's checks run in the order presence, validity, role and stop at
\* the first that fails: no token gives 401 "authentication required" whatever
\* required_role is and without the token being verified; a present but
\* invalid or expired token gives 401 "invalid or expired" even when its role
\* mismatches; 403 is given only for a present, valid token whose role differs
\* from a set required_role.
C2_ChecksInOrder ==
    (Guarded /\ pc = "done" /\ ~InternalError) =>
        /\ ~CarriesToken =>
              /\ resp = Some(unauthorized_response(MsgAuthRequired))
              /\ vt = None
        /\ (CarriesToken /\ ~TokenValid) =>
              resp = Some(unauthorized_response(MsgInvalidToken))
        /\ resp[1].status = 403 <=>
              (CarriesToken /\ TokenValid /\ ~RoleAllowed)
        /\ resp[1].status \in { 401, 403 } => calls = 0

C2_Witness_ExpiredAndWrongRole ==
    /\ Guarded /\ pc = "done"
    /\ SignatureValid /\ vt # None /\ ~BeforeExpiry
    /\ require_role = Some("admin")
    /\ token[1][1].claims.role = "user"
    /\ resp = Some(unauthorized_response(MsgInvalidToken))

\* C3: verify_token returns the claims exactly when the signature verifies
\* under the configured secret and the clock is strictly before exp; for an
\* expired token with a valid signature (also at now = exp) and for a token
\* signed with another secret it returns None and raises nothing.
C3_VerifyTokenExact ==
    vt # None =>
        IF TokenValid
        THEN payload = Some(token[1][1].claims)
        ELSE /\ payload = None
             /\ ~InternalError

C3_Witness_ExpiredAtExp ==
    /\ SignatureValid
    /\ vt = Some(token[1][1].claims.exp * TicksPerSecond)
    /\ payload = None
    /\ ~InternalError
\* the whole second a clock reading falls in, as a clock reading
WholeSecond(t) == (t \div TicksPerSecond) * TicksPerSecond

\* the claims come back: same user_id, email and role, and iat and exp the
\* whole seconds of the clock readings generate_token put in
SameClaims(p, c) ==
    /\ p.user_id = c.user_id
    /\ p.email = c.email
    /\ p.role = c.role
    /\ p.exp * TicksPerSecond = WholeSecond(c.exp)
    /\ p.iat * TicksPerSecond = WholeSecond(c.iat)

\* C4 as claimed: a token generate_token produced at time T, decoded at any T'
\* with T <= T' < T + 24h, yields the issued claims.
C4_Claimed_RoundTripFor24h ==
    \A i \in issued :
        (vt # None /\ token = Some(i.token) /\ i.T <= vt[1] /\ vt[1] < i.T + TTL) =>
            (payload # None /\ SameClaims(payload[1], i.claims))

\* C4 as amended: a token generate_token produced, decoded at any time from
\* its issuance until strictly before its exp claim (the whole second that
\* the first clock reading plus 24h falls in), yields the issued claims, with
\* iat and exp as whole seconds.
C4_RoundTripUntilExp ==
    \A i \in issued :
        (vt # None /\ token = Some(i.token) /\ i.T <= vt[1]
                   /\ vt[1] < WholeSecond(i.claims.exp)) =>
            (payload # None /\ SameClaims(payload[1], i.claims))

C4_Witness_LastTickBeforeExp ==
    \E i \in issued :
        /\ token = Some(i.token)
        /\ i.T # WholeSecond(i.T)
        /\ vt = Some(WholeSecond(i.claims.exp) - 1)
        /\ payload # None /\ SameClaims(payload[1], i.claims)

\* C5: every claims set generate_token builds has exp = iat + 24 hours
\* exactly, also when the clock advances between its two readings.
C5_Claimed_ExpIsIatPlus24h ==
    \A i \in issued : i.claims.exp = i.claims.iat + TTL

\* C6: malformed encoding, signature mismatch and expiry are not told apart:
\* for each of them verify_token returns None, and the response is the same
\* 401 with the same message (the gate's for a guarded route, the verify
\* handler's for /auth/verify).
C6_InvalidCausesNotDistinguished ==
    (vt # None /\ ~TokenValid) =>
        /\ payload = None
        /\ route = "guarded" => resp = Some(unauthorized_response(MsgInvalidToken))
        /\ route = "verify" => resp = Some(unauthorized_response(MsgVerifyInvalid))

C6_Witness_ExpiredOnVerify ==
    /\ route = "verify"
    /\ vt # None /\ SignatureValid /\ ~BeforeExpiry
    /\ resp = Some(unauthorized_response(MsgVerifyInvalid))
\* the header begins with the seven characters of "Bearer "
HasBearerPrefix(h) == Len(h) >= 7 /\ \A k \in 1 .. 7 : h[k] = Bearer[k]

\* get_token_from_request has run for the request in flight
Extracted ==
    \/ token # None
    \/ /\ resp # None
       /\ resp[1] \in { unauthorized_response(MsgAuthRequired),
                        unauthorized_response(MsgTokenRequired) }

\* C7: get_token_from_request returns None for an absent or empty header;
\* for a value that starts with "Bearer " (this case, one space) it returns
\* what follows one such prefix ("Bearer Bearer x" gives "Bearer x"); any other
\* non-empty value ("bearer x", "Bearerx", a bare token) comes back unchanged.
C7_ExtractStripsOnePrefix ==
    LET h == req.header IN
    Extracted =>
        /\ h = << >> => token = None
        /\ HasBearerPrefix(h) => (token # None /\ h = Bearer \o token[1])
        /\ (h # << >> /\ ~HasBearerPrefix(h)) => token = Some(h)
        /\ h = Bearer \o Bearer \o Garbage => token = Some(Bearer \o Garbage)
        /\ h = LowerBearer \o Garbage => token = Some(LowerBearer \o Garbage)
        /\ h = BearerNoSpace \o Garbage => token = Some(BearerNoSpace \o Garbage)

C7_Witness_DoublePrefix ==
    /\ req.header = Bearer \o Bearer \o Garbage
    /\ token = Some(Bearer \o Garbage)

\* C8: when the three checks pass, the gate sets the request's user context
\* to the decoded claims before it calls the wrapped handler, calls it exactly
\* once, and returns the handler's response unchanged.
C8_PassesClaimsAndResponse ==
    /\ calls <= 1
    /\ calls = 1 => seen = Some(token[1][1].claims)
    /\ (pc = "done" /\ hresp # None) => resp = hresp
    /\ (Guarded /\ pc = "done" /\ CarriesToken /\ TokenValid /\ RoleAllowed
           /\ ~InternalError) =>
          (calls = 1 /\ hresp # None)

C8_Witness_HandlerAnswerReturned ==
    /\ pc = "done"
    /\ calls = 1
    /\ seen = payload /\ payload # None
    /\ resp = hresp /\ resp[1].status = 404

\* C9: no exception leaves the guarded handler: an error raised while the
\* token is extracted, decoded or its role checked is answered with a 401
\* carrying the error message, and a response the gate itself makes is a 401
\* or a 403, never a 500.
C9_NoExceptionEscapes ==
    /\ ~escaped
    /\ (Guarded /\ pc = "done") =>
          /\ resp # None
          /\ hresp = None => resp[1].status \in { 401, 403 }
          /\ log = "Error in authentication decorator" =>
                /\ resp[1].status = 401
                /\ resp[1].body.error[1] = "Authentication error"

C9_Witness_ErrorAnswered401 ==
    /\ Guarded /\ pc = "done" /\ calls = 0
    /\ log = "Error in authentication decorator"
    /\ resp = Some(unauthorized_response(MsgAuthError("internal error")))
\* the record authenticate_user is about: the first one in the collection
\* whose email is the normalized email of the call
AuthCall == call # None /\ call[1].op = "authenticate_user"
AuthHits ==
    { k \in 1 .. Len(users) : users[k].email = Strip(Lower(call[1].email)) }
AuthRecord == users[CHOOSE k \in AuthHits : \A j \in AuthHits : k <= j]
RecordActive == "active" \notin DOMAIN AuthRecord \/ AuthRecord.active
RecordHasHash ==
    "password_hash" \in DOMAIN AuthRecord /\ AuthRecord.password_hash # EmptyStr
PasswordCorrect ==
    /\ "password_hash" \in DOMAIN AuthRecord
    /\ "digest" \in DOMAIN AuthRecord.password_hash
    /\ AuthRecord.password_hash.digest[1] = Truncated(call[1].password)

\* C10: authenticate_user raises nothing and returns None, at the first of
\* these tests that applies, in this order: no record for the normalized email;
\* record with active = false (also with the correct password); record with
\* empty or missing password_hash; password that does not verify.  It returns
\* the record without password_hash and with a string _id exactly when the
\* record exists, is active and the password verifies.
C10_AuthenticateCollapsesFailures ==
    AuthCall =>
        /\ ret[1].exc = ""
        /\ IF AuthHits = { } THEN ret[1].val = None /\ ret[1].line = 166
           ELSE IF ~RecordActive THEN ret[1].val = None /\ ret[1].line = 170
           ELSE IF ~RecordHasHash THEN ret[1].val = None /\ ret[1].line = 175
           ELSE IF ~PasswordCorrect THEN ret[1].val = None /\ ret[1].line = 175
           ELSE /\ ret[1].val # None
                /\ DOMAIN ret[1].val[1] = DOMAIN AuthRecord \ { "password_hash" }
                /\ ret[1].val[1]._id = Str(AuthRecord._id.oid)
                /\ \A f \in DOMAIN AuthRecord \ { "password_hash", "_id" } :
                      ret[1].val[1][f] = AuthRecord[f]

C10_Witness_InactiveCorrectPassword ==
    /\ AuthCall
    /\ AuthHits # { }
    /\ ~RecordActive
    /\ PasswordCorrect
    /\ ret[1].val = None
\* a login request that reached authenticate_user and got its answer
LoginCall == call # None /\ call[1].op = "login"

LoginWellFormed ==
    /\ ~import_errors
    /\ call[1].method = "POST"
    /\ DOMAIN call[1].body # { }
    /\ validate_required_fields(call[1].body, << "email", "password" >>).ok
    /\ ret[1].user.exc = ""

\* C11: the login response does not reveal whether an account exists: for a
\* well-formed request the response is the same 401 with the same body
\* ('Invalid email or password') when no account has the email, when the
\* account is inactive and when the password is wrong, and it is the response
\* the same request gets from an empty store.
C11_LoginHidesExistence ==
    (LoginCall /\ LoginWellFormed) =>
        ((AuthHits = { } \/ ~RecordActive \/ ~RecordHasHash \/ ~PasswordCorrect) =>
            /\ ret[1].resp = unauthorized_response(MsgInvalidCredentials)
            /\ ret[1].resp = auth_login_main(<< >>, call[1].method, call[1].body,
                                             now, now).resp)

C11_Witness_InactiveGets401 ==
    /\ LoginCall /\ LoginWellFormed
    /\ AuthHits # { }
    /\ ~RecordActive
    /\ PasswordCorrect
    /\ ret[1].resp = [status |-> 401, body |-> [error |-> MsgInvalidCredentials]]
\* C12 as claimed: in every reachable state of the store, also under
\* interleaved concurrent register requests, there is at most one user record
\* per normalized email.
C12_Claimed_OneRecordPerEmail ==
    \A k \in 1 .. Len(users) : Stored(users, users[k].email) = { k }

\* what makes a register body invalid: it is missing or empty, a required
\* field is missing or empty, the email is malformed or the password is short
BodyInvalid(b) ==
    \/ "absent" \in DOMAIN b
    \/ DOMAIN b = { }
    \/ \E f \in { "email", "password", "name" } : f \notin DOMAIN b \/ b[f] = << >>
    \/ ~MatchesEmailPattern(
          RStrip(LStrip([i \in 1 .. Len(b.email) |-> LowerChar(b.email[i])])))
    \/ Len(b.password) < MIN_PASSWORD_LENGTH

\* C21 as claimed: a POST to the register endpoint with an invalid body is
\* answered 400 without reaching the store; a request answered 400 or 409 has
\* inserted nothing and a request answered 201 has inserted its record.
C21_Claimed_InvalidBodyGets400 ==
    \A w \in Workers :
        (reg[w].pc = "done" /\ reg[w].kind = "register"
            /\ reg[w].method = "POST" /\ ~import_errors) =>
            /\ BodyInvalid(reg[w].body) =>
                  (reg[w].resp.status = 400 /\ "email" \notin DOMAIN reg[w])
            /\ reg[w].resp.status \in { 400, 409 } => ~reg[w].inserted
            /\ reg[w].resp.status = 201 => reg[w].inserted

\* a request that got past validation to the store
Served(w) == reg[w].pc = "done" /\ "email" \in DOMAIN reg[w]
StoreFailed(w) == reg[w].resp.status = 500
Conflict == [status |-> 409, body |-> [error |-> MsgUserExists]]

\* C13: a register (or create-user) request that arrives when a record with
\* the same lowercased, trimmed email is already stored is answered 409
\* conflict and inserts nothing, whatever the case and the surrounding
\* whitespace of the email it sends; no request answered 409 has inserted.
C13_SecondRegisterConflicts ==
    \A w \in Workers :
        Served(w) =>
            /\ (reg[w].existed /\ ~StoreFailed(w)) =>
                  (reg[w].resp = Conflict /\ ~reg[w].inserted)
            /\ reg[w].resp.status = 409 =>
                  (~reg[w].inserted /\ Stored(users, reg[w].body.email) # { })

C13_Witness_VariantConflicts ==
    \E w \in Workers :
        /\ Served(w) /\ reg[w].existed
        /\ reg[w].body.email = NewEmailVariant
        /\ reg[w].resp = Conflict
        /\ Len(users) = Len(SeedUsers) + 1
        /\ users[Len(users)].email = NewEmail

\* the records a worker's request has inserted carry the id it was answered
Inserted(w) == "inserted" \in DOMAIN reg[w] /\ reg[w].inserted

\* C14: two register requests for the same normalized email that both pass
\* the handler's and create_user's existence check before either inserts both
\* insert: each gets 201 and a token for its own user id, and the store holds
\* two records with that email.
C14_BothRegistrationsInsert ==
    \A v, w \in Workers :
        (v # w /\ Inserted(v) /\ Inserted(w) /\ reg[v].email = reg[w].email) =>
            /\ reg[v].user._id # reg[w].user._id
            /\ Cardinality(Stored(users, reg[v].email)) >= 2
            /\ \A u \in { v, w } :
                  (reg[u].pc = "done" /\ ~StoreFailed(u)) => reg[u].resp.status = 201

C14_Witness_TwoAccounts ==
    /\ \A w \in Workers :
          /\ Served(w) /\ Inserted(w) /\ reg[w].kind = "register"
          /\ reg[w].email = NewEmail
          /\ reg[w].passed_at = Len(SeedUsers)
          /\ reg[w].resp.status = 201
    /\ reg[1].resp.body.token[1].claims.user_id
           # reg[2].resp.body.token[1].claims.user_id
    /\ Cardinality(Stored(users, NewEmail)) = 2

\* C17: every record register inserts carries a non-empty password_hash, the
\* bcrypt hash of the request's password made before insert_one is issued;
\* no reachable store, also after a request was aborted between two steps,
\* holds a record created by register without it.
C17_InsertedWithHash ==
    /\ \A k \in (Len(SeedUsers) + 1) .. Len(users) :
          /\ "password_hash" \in DOMAIN users[k]
          /\ "digest" \in DOMAIN users[k].password_hash
    /\ \A w \in Workers :
          reg[w].pc = "insert" =>
              /\ "password_hash" \in DOMAIN reg[w]
              /\ \E salt \in Salts :
                    reg[w].password_hash = BcryptHash(reg[w].password, salt)

C17_Witness_AbortedAfterInsert ==
    /\ \E w \in Workers : reg[w].pc = "aborted" /\ reg[w].at = "token"
    /\ \A w \in Workers : reg[w].pc \in { "idle", "aborted" }
    /\ Len(users) = Len(SeedUsers) + 1
    /\ users[Len(users)].password_hash = BcryptHash(Password1, "salt3")
\* C15: authenticate_user normalizes the email before the lookup: for a
\* stored active user and the correct password, a call with any case or
\* whitespace variant of the email returns the same sanitized identity record
\* as the call with the normalized email.
C15_AuthenticateNormalizesEmail ==
    (AuthCall /\ AuthHits # { }) =>
        ((RecordActive /\ RecordHasHash /\ PasswordCorrect) =>
            /\ ret[1].val # None
            /\ ret[1].val[1].email = Strip(Lower(call[1].email))
            /\ ret[1] = authenticate_user(users, Strip(Lower(call[1].email)),
                                          call[1].password))

C15_Witness_VariantAccepted ==
    /\ AuthCall
    /\ call[1].email = << " ", "a", "@", "x", " " >>
    /\ ret[1].val # None
    /\ ret[1].val[1].email = EmailA
    /\ ret[1].val[1]._id = Str("id1")
\* C18 as claimed: for all passwords P, verify_password(P, hash_password(P))
\* is true, and for all Q different from P, verify_password(Q, hash_password(P))
\* is false.
C18_Claimed_VerifyIffSamePassword ==
    (call # None /\ call[1].op = "hash_then_verify") =>
        /\ ret[1].hashed.exc = ""
        /\ ret[1].verified.exc = ""
        /\ ret[1].verified.val <=> (call[1].candidate = call[1].password)

\* C19: verify_password never raises: for a malformed hash string, and for
\* any input on which bcrypt.checkpw raises, it returns False.
C19_VerifyPasswordNeverRaises ==
    (call # None /\ call[1].op = "verify_password") =>
        /\ ret[1].exc = ""
        /\ ret[1].val \in BOOLEAN
        /\ "salt" \notin DOMAIN call[1].hash => ret[1].val = FALSE
        /\ bcrypt_checkpw(call[1].password, call[1].hash).exc # "" =>
              ret[1].val = FALSE

C19_Witness_MalformedHashFalse ==
    /\ call # None /\ call[1].op = "verify_password"
    /\ call[1].hash = MalformedHash
    /\ ret[1] = [exc |-> "", val |-> FALSE]
\* an identity record as it may leave the service: no password_hash, and an
\* _id that is a string
Sanitized(d) ==
    /\ "password_hash" \notin DOMAIN d
    /\ "_id" \in DOMAIN d => "str" \in DOMAIN d._id

Registered == reg[1].pc = "done" /\ reg[1].kind = "register"
                  /\ reg[1].resp.status = 201
LoggedIn ==
    /\ call # None /\ call[1].op = "login"
    /\ Stored(users, call[1].email) = Stored(users, reg[1].body.email)
    /\ call[1].password = reg[1].body.password
    /\ call[1].after >= reg[1].n
NewRecord == users[CHOOSE k \in Stored(users, reg[1].body.email) : TRUE]
DecodesToRecord(tok) ==
    LET p == verify_token(tok, now).val IN
    /\ p # None
    /\ p[1].user_id = Str(NewRecord._id.oid)
    /\ p[1].email = NewRecord.email
    /\ p[1].role = NewRecord.role
Unexpired(tok) == now < tok[1].claims.exp * TicksPerSecond

\* C20: in a run where the requests are served one after another, after a
\* register answered 201 with token T, a login with a case variant of the email
\* and the same password is answered 200 with a token T2; while unexpired, T
\* and T2 decode to the user_id, email and role of the stored record, and
\* /auth/verify called with 'Bearer T2' before T2 expires answers 200 with
\* valid = true and that user_id, email and role.
C20_RegisterLoginVerify ==
    Registered =>
        /\ Unexpired(reg[1].resp.body.token) =>
              DecodesToRecord(reg[1].resp.body.token)
        /\ LoggedIn =>
              /\ ret[1].resp.status = 200
              /\ ret[1].token = Some(ret[1].resp.body.token)
              /\ Unexpired(ret[1].token[1]) => DecodesToRecord(ret[1].token[1])
              /\ (route = "verify" /\ pc = "done" /\ vt # None
                     /\ req.header = Bearer \o ret[1].token[1] /\ BeforeExpiry) =>
                    resp = Some([status |-> 200,
                                 body |-> [user_id |-> Str(NewRecord._id.oid),
                                           email |-> NewRecord.email,
                                           role |-> NewRecord.role,
                                           valid |-> TRUE]])

C20_Witness_VerifiedAfterLogin ==
    /\ Registered /\ LoggedIn
    /\ reg[1].body.email = NewEmail
    /\ call[1].email = NewEmailUpper
    /\ ret[1].token[1] # reg[1].resp.body.token
    /\ route = "verify" /\ pc = "done"
    /\ req.header = Bearer \o ret[1].token[1]
    /\ vt # None /\ BeforeExpiry
    /\ resp = Some([status |-> 200,
                    body |-> [user_id |-> Str(NewRecord._id.oid),
                              email |-> NewEmail, role |-> "user",
                              valid |-> TRUE]])

KeptFields == { "_id", "email", "password_hash", "name", "active", "created_at" }

\* a step that starts authenticate_user, user_exists or login, or moves verify
ReadOnlyStep ==
    \/ /\ call = None /\ call' # None
       /\ call'[1].op \in { "authenticate_user", "user_exists", "login" }
    \/ pc' # pc

\* C26: in every step of register, login, verify, authenticate_user,
\* user_exists and update_user_role no user record is removed and the email,
\* password_hash, name, active and created_at of a stored record stay as they
\* are (only role can change); the steps of authenticate_user, user_exists,
\* login and verify leave the collection as it is.
C26_RecordsKeptOnlyRoleChanges ==
    [][/\ Len(users') >= Len(users)
       /\ \A k \in 1 .. Len(users) :
             \A f \in KeptFields :
                /\ (f \in DOMAIN users'[k]) = (f \in DOMAIN users[k])
                /\ f \in DOMAIN users[k] => users'[k][f] = users[k][f]
       /\ ReadOnlyStep => users' = users]_vars

C26_Witness_RoleOfRegisteredChanged ==
    /\ call # None /\ call[1].op = "update_user_role"
    /\ call[1].email = NewEmailUpper
    /\ Len(call[1].before) = Len(SeedUsers) + 1
    /\ call[1].before[Len(users)].role = "user"
    /\ ret[1].val
    /\ users[Len(users)].role = "admin"
    /\ users[Len(users)].email = NewEmail
    /\ users[Len(users)].active
    /\ "password_hash" \in DOMAIN users[Len(users)]

\* C27: when shared.auth could not be imported, every request to an endpoint
\* behind the decorator of safe_require_auth is answered 503 'Authentication
\* system unavailable' and the wrapped handler is never invoked, whatever the
\* required role (none included) and whatever the Authorization header.
C27_FailsClosedWithoutAuth ==
    import_errors =>
        /\ calls = 0 /\ hresp = None /\ seen = None
        /\ (route = "guarded" /\ pc = "done") =>
              /\ resp # None
              /\ resp[1].status = 503
              /\ resp[1].body.error = << "Authentication system unavailable" >>

C27_Witness_NoRoleStill503 ==
    /\ import_errors /\ route = "guarded" /\ pc = "done"
    /\ require_role = None
    /\ req.header = Bearer \o Garbage
    /\ resp # None /\ resp[1].status = 503
    /\ calls = 0

\* C28: when the wrapped handler raises after the checks of the gate passed,
\* the guarded handler answers 401 with 'Authentication error' and the text of
\* the exception, not 500: the call is inside the try block of the wrapper.
C28_HandlerErrorAnswered401 ==
    (route = "guarded" /\ ~import_errors /\ pc = "done" /\ calls = 1
        /\ hresp = None) =>
        /\ ~escaped
        /\ resp = Some([status |-> 401,
                        body |-> [error |-> << "Authentication error",
                                              "handler error" >>]])

C28_Witness_HandlerRaisedAfterChecks ==
    /\ route = "guarded" /\ ~import_errors /\ pc = "done"
    /\ calls = 1 /\ hresp = None
    /\ seen # None /\ seen = payload
    /\ require_role = Some("admin") /\ payload[1].role = "admin"
    /\ resp # None /\ resp[1].status = 401

AskedRole(w) == Get(reg[w].body, "role", "user")

\* what holds of the records and of the token of a register answered 201
RegisteredAs(w, hits) ==
    /\ ~reg[w].existed
    /\ hits # { }
    /\ \A k \in hits : users[k].active /\ users[k].role = AskedRole(w)
    /\ reg[w].resp.body.role = AskedRole(w)
    /\ LET p == verify_token(reg[w].resp.body.token, now).val IN
          p # None => p[1].role = AskedRole(w)

\* C24 as claimed: a register answered 201 has moved its email from no
\* account to exactly one account, active and with the role of the request
\* body ('user' when the body names none), and its token carries that role.
C24_Claimed_ExactlyOneAccount ==
    \A w \in Workers :
        (reg[w].pc = "done" /\ reg[w].kind = "register"
            /\ reg[w].resp.status = 201) =>
            LET hits == Stored(users, reg[w].body.email) IN
            RegisteredAs(w, hits) /\ Cardinality(hits) = 1

TokenRecords == Stored(users, token[1][1].claims.email)

\* C22: what the gate and /auth/verify decide is fixed by the Authorization
\* header, the time of the check, the secret and required_role, whatever the
\* users collection holds: the handler is invoked exactly when the request
\* carries a valid token whose role claim is allowed, 403 is given exactly for
\* a valid token with another role, and verify answers valid exactly for a
\* valid token, with the role of the token; so a token issued before its user
\* was deactivated, removed or given another role keeps its role until it
\* expires.
C22_DecisionIgnoresStore ==
    (pc = "done" /\ ~import_errors /\ ~InternalError) =>
        /\ route = "guarded" =>
              /\ (calls = 1) = (CarriesToken /\ TokenValid /\ RoleAllowed)
              /\ (resp[1].status = 403) =
                    (CarriesToken /\ TokenValid /\ ~RoleAllowed)
              /\ calls = 1 => seen = Some(token[1][1].claims)
        /\ route = "verify" =>
              /\ ("valid" \in DOMAIN resp[1].body) = (CarriesToken /\ TokenValid)
              /\ (CarriesToken /\ TokenValid) =>
                    resp[1].body.role = token[1][1].claims.role

C22_Witness_OldRoleAfterRoleChange ==
    /\ route = "guarded" /\ pc = "done" /\ calls = 1
    /\ require_role = Some("admin")
    /\ TokenValid
    /\ token[1][1].claims.role = "admin"
    /\ TokenRecords # { }
    /\ \A k \in TokenRecords : users[k].role = "user" /\ ~users[k].active

----------------------------------------------------------------------------
(* shared/db_connection.py: get_database and get_mongo_client, one step per
   read or write of a module-level name, run by the threads of one process
   with DB_PROVIDER = mongodb.  No step holds a lock: the source has none. *)

otherVars == << now, gen, issued, import_errors, gateVars, users, call, ret,
                reg, started, bcrypt_strict >>

Thread(t, pos) == [db.th[t] EXCEPT !.pc = pos]

Raise(t, e) == [db.th[t] EXCEPT !.pc = "idle", !.exc = e]

\* a handler calls get_database(): line 85
GetDatabase(t) ==
    /\ db.th[t].pc = "idle"
    /\ db' = [db EXCEPT !.th[t] = [IdleThread EXCEPT !.pc = "l89",
                                                      !.entry = "get_database"]]
    /\ UNCHANGED otherVars

\* a caller calls get_mongo_client() directly: line 33
GetMongoClient(t) ==
    /\ db.th[t].pc = "idle"
    /\ db' = [db EXCEPT !.th[t] = [IdleThread EXCEPT !.pc = "l37",
                                                      !.entry = "get_mongo_client"]]
    /\ UNCHANGED otherVars

\* line 89: if _database is None; else straight to line 103
DatabaseIsNone(t) ==
    /\ db.th[t].pc = "l89"
    /\ db' = [db EXCEPT !.th[t] =
                Thread(t, IF db._database = None THEN "l37" ELSE "l103")]
    /\ UNCHANGED otherVars

\* lines 37-43: if _pymongo_client is None, read the connection string
ClientIsNone(t) ==
    /\ db.th[t].pc = "l37"
    /\ db' = [db EXCEPT !.th[t] =
                IF db._pymongo_client # None THEN Thread(t, "l59")
                ELSE IF ~db.connection_string THEN Raise(t, "ValueError")
                ELSE Thread(t, "l46")]
    /\ UNCHANGED otherVars

\* lines 46-51: _pymongo_client = MongoClient(...), a new object each time
MongoClient(t) ==
    /\ db.th[t].pc = "l46"
    /\ db' = [db EXCEPT !._pymongo_client = Some(db.built + 1),
                        !.built = db.built + 1,
                        !.th[t] = Thread(t, "l53")]
    /\ UNCHANGED otherVars

\* lines 53-57: ping whatever _pymongo_client names now; a failure is logged
\* and raised again, the module-level name is left as it is
PingClient(t) ==
    /\ db.th[t].pc = "l53"
    /\ \E ok \in BOOLEAN :
         db' = IF ok
               THEN [db EXCEPT !.pinged = @ \cup { db._pymongo_client[1] },
                               !.th[t] = Thread(t, "l59")]
               ELSE [db EXCEPT !.failed = @ \cup { db._pymongo_client[1] },
                               !.th[t] = Raise(t, "ConnectionFailure")]
    /\ UNCHANGED otherVars

\* line 59: return _pymongo_client, to the caller or to get_database line 98
ReturnClient(t) ==
    /\ db.th[t].pc = "l59"
    /\ db' = [db EXCEPT !.th[t] =
                IF db.th[t].entry = "get_mongo_client"
                THEN [db.th[t] EXCEPT !.pc = "idle", !.got = db._pymongo_client]
                ELSE [db.th[t] EXCEPT !.pc = "l100",
                                      !.client = db._pymongo_client]]
    /\ UNCHANGED otherVars

\* line 100: _database = client[db_name]
AssignDatabase(t) ==
    /\ db.th[t].pc = "l100"
    /\ db' = [db EXCEPT !._database = db.th[t].client,
                        !.th[t] = Thread(t, "l103")]
    /\ UNCHANGED otherVars

\* line 103: return _database
ReturnDatabase(t) ==
    /\ db.th[t].pc = "l103"
    /\ db' = [db EXCEPT !.th[t] =
                [db.th[t] EXCEPT !.pc = "idle", !.got = db._database]]
    /\ UNCHANGED otherVars

InitClient == InitRest /\ db \in { ClientCache(c) : c \in BOOLEAN }

NextClient ==
    \E t \in Threads :
        \/ GetDatabase(t)
        \/ GetMongoClient(t)
        \/ DatabaseIsNone(t)
        \/ ClientIsNone(t)
        \/ MongoClient(t)
        \/ PingClient(t)
        \/ ReturnClient(t)
        \/ AssignDatabase(t)
        \/ ReturnDatabase(t)

SpecClient == InitClient /\ [][NextClient]_vars

\* the clients the callers of get_mongo_client hold
ClientsHeld ==
    { db.th[t].got[1] :
        t \in { u \in Threads : db.th[u].entry = "get_mongo_client"
                                  /\ db.th[u].pc = "idle"
                                  /\ db.th[u].got # None } }

\* C23: under any interleaving of first calls to get_database and
\* get_mongo_client, at most one client object is constructed and every
\* caller gets that same client.
C23_Claimed_ConstructOnce ==
    /\ db.built <= 1
    /\ Cardinality(ClientsHeld) <= 1

\* C30: get_mongo_client returns a client only if a ping on that client
\* succeeded, and a client whose ping failed is not left in the cache.
C30_Claimed_ReturnedClientWasPinged ==
    /\ ClientsHeld \subseteq db.pinged
    /\ (db._pymongo_client # None /\ \A t \in Threads : db.th[t].pc = "idle")
          => db._pymongo_client[1] \in db.pinged
====
